---- MODULE Spec2Model ----
(***************************************************************************)
(* Model of the device communication subsystem of sapodilla:               *)
(*   src/src/transports/mod.rs   TransportManager (relay, status poller,   *)
(*                               wait_for_response, send_data, poll_job,   *)
(*                               disconnect, next_message_id)              *)
(*   src/src/transports/mock.rs  MockTransport                             *)
(*   src/src/transports/web_serial.rs  WebSerialTransport and its handler  *)
(*   src/src/protocol.rs         AvocadoPacket and the JSON shapes         *)
(*                                                                         *)
(* Every asynchronous task of the program is a process with a position pc. *)
(* One action is one stretch of a task between two suspension points       *)
(* (awaits); the shared objects are the atomics MESSAGE_ID and sending,    *)
(* the mutex-guarded pending table, the transport mutex and the channels.  *)
(***************************************************************************)
EXTENDS Integers, Sequences, FiniteSets, TLC

VARIABLES
    MESSAGE_ID,   \* static MESSAGE_ID: AtomicU32, as two 16-bit limbs <<hi, lo>>
    returned,     \* observer: the calls of next_message_id, in order: who got which value
    sending,      \* TransportManager.sending: AtomicBool
    pending,      \* TransportManager.pending: msg_number -> task holding the receiver
    event_q,      \* the unbounded channel event_tx -> event_rx
    delivered,    \* observer: the events the relay passed to cb, in order
    ready,        \* the relay task: its ready_tx and whether it still runs
    tlock,        \* owner of the transport mutex, "free" when unlocked
    transport,    \* the Transport behind the mutex
    action_q,     \* WebSerialTransport's action channel tx -> action_rx
    port_out,     \* frames written to the port that the device has not answered
    wire,         \* observer: every send_packet invocation, in order
    wdone,        \* per task: the write-completion oneshot send_packet returned
    pc,           \* per task: position in its code
    pkt,          \* per task: the packet it is sending / waiting on
    rx,           \* per task: the response oneshot of wait_for_response
    resp,         \* per task: what wait_for_response returned
    ret,          \* per task: what the public call returned
    sd,           \* per send_data call: its locals
    progress,     \* per send_data call: observer of the calls f(total, sent)
    poll,         \* the status poller's and poll_job's loop observers
    script,       \* the device's scripted get-job-info answers still to give
    overlap,      \* per send_data call: observer, was another call past the guard at its start
    encoded,      \* observer: the frames whose encodings make up the byte source, in order
    cursor,       \* the Cursor the packet reader reads: its bytes and its position
    items         \* observer: what AvocadoPacketReader::next returned, in order

\* The packet codec's variables and the manager's.
codecVars == <<encoded, cursor, items>>

managerVars == <<MESSAGE_ID, returned, sending, pending, event_q, delivered, ready,
                 tlock, transport, action_q, port_out, wire, wdone, pc, pkt, rx, resp,
                 ret, sd, progress, poll, script, overlap>>

vars == <<managerVars, codecVars>>

----------------------------------------------------------------------------
(* u32 arithmetic on two 16-bit limbs <<hi, lo>>.                          *)

LimbMod == 65536

U32(n) == <<n \div LimbMod, n % LimbMod>>

\* AtomicU32::fetch_add(1) wraps around on overflow.
WrappingAdd1(v) ==
    IF v[2] = LimbMod - 1 THEN <<(v[1] + 1) % LimbMod, 0>> ELSE <<v[1], v[2] + 1>>

U32Lt(a, b) == a[1] < b[1] \/ (a[1] = b[1] /\ a[2] < b[2])

\* u32::to_le_bytes
ToLeBytes(v) == <<v[2] % 256, v[2] \div 256, v[1] % 256, v[1] \div 256>>

\* Mutant of DivCeil: the division rounds down.
DivFloor(a, b) == a \div b

\* usize::div_ceil
DivCeil(a, b) == (a + b - 1) \div b

----------------------------------------------------------------------------
(* Tasks.                                                                  *)

SendCallers == {"sd1", "sd2", "sd3"}   \* callers of send_data
WaitCallers == {"w1", "w2"}            \* direct callers of wait_for_response
StatusPoller == "poller"               \* the task spawned at mod.rs:142
JobPoller == "pj"                      \* a caller of poll_job
Starter == "start"                     \* the task spawned at mod.rs:251
Disconnectors == {"dc1", "dc2"}        \* callers of disconnect

Tasks == SendCallers \cup WaitCallers \cup Disconnectors
             \cup {StatusPoller, JobPoller, Starter}

\* Callers of wait_for_response: direct ones, the status poller and poll_job.
Waiters == WaitCallers \cup {StatusPoller, JobPoller}

----------------------------------------------------------------------------
(* Packets and their JSON payloads.                                        *)

MAX_DATA_SIZE == 896

\* The payload is either a JSON value or raw bytes.
JsonData(obj) == [kind |-> "json", obj |-> obj]
RawData(bytes) == [kind |-> "raw", bytes |-> bytes]

NoPacket == [none |-> TRUE]

\* Mutant of JsonRequest: the header is numbered with an id of its own, one
\* after the id in the payload.
JsonRequestOwnNumber(id, obj) ==
    [version |-> 100, content_type |-> "Message", interaction_type |-> "Request",
     encoding_type |-> "Json", encryption_mode |-> "None",
     terminal_id |-> id, msg_number |-> <<id[1], (id[2] + 1) % 65536>>,
     msg_package_total |-> 1, msg_package_num |-> 1, is_subpackage |-> FALSE,
     data |-> [kind |-> "json", obj |-> obj]]

\* The request literal shared by the status poller, poll_job and print_canvas.
JsonRequest(id, obj) ==
    [version |-> 100, content_type |-> "Message", interaction_type |-> "Request",
     encoding_type |-> "Json", encryption_mode |-> "None",
     terminal_id |-> id, msg_number |-> id,
     msg_package_total |-> 1, msg_package_num |-> 1, is_subpackage |-> FALSE,
     data |-> JsonData(obj)]

GetPropRequest(id) ==
    JsonRequest(id, [id |-> id, method |-> "get-prop",
                     params |-> <<"printer-state", "printer-sub-state",
                                  "printer-state-alerts">>])

GetJobInfoRequest(id, job_id) ==
    JsonRequest(id, [id |-> id, method |-> "get-job-info",
                     params |-> [job_id |-> job_id]])

\* The packet send_data builds for one chunk; index is 0-based as in the loop.
DataPacket(id, job_id, chunk, count, index) ==
    [version |-> 100, content_type |-> "Data", interaction_type |-> "Request",
     encoding_type |-> "Hexadecimal", encryption_mode |-> "None",
     terminal_id |-> id, msg_number |-> id,
     msg_package_total |-> count, msg_package_num |-> index + 1,
     is_subpackage |-> (count > 1),
     data |-> RawData(ToLeBytes(job_id) \o chunk)]

\* A frame the device sends: a JSON message, with or without an id.
JsonResponse(obj) ==
    [version |-> 100, content_type |-> "Message", interaction_type |-> "Response",
     encoding_type |-> "Json", encryption_mode |-> "None",
     terminal_id |-> U32(0), msg_number |-> U32(0),
     msg_package_total |-> 1, msg_package_num |-> 1, is_subpackage |-> FALSE,
     data |-> JsonData(obj)]

\* Mutant of IsJsonMessage: the payload is parsed whatever the frame's
\* content type and encoding are.
IsJsonMessageAnyContent(p) == p.data.kind = "json" /\ p.encryption_mode = "None"

\* AvocadoPacket::as_json: only unencrypted JSON messages are parsed.
IsJsonMessage(p) ==
    /\ p.content_type = "Message"
    /\ p.encryption_mode = "None"
    /\ p.encoding_type = "Json"
    /\ p.data.kind = "json"

\* as_json::<AvocadoId>: the object must have an id field.
HasJsonId(p) == IsJsonMessage(p) /\ "id" \in DOMAIN p.data.obj
JsonId(p) == p.data.obj.id

\* as_json::<AvocadoResult<T>>: the object must have a result field of shape T.
HasResult(p, shape) ==
    /\ IsJsonMessage(p)
    /\ "result" \in DOMAIN p.data.obj
    /\ p.data.obj.result.shape = shape

JobStates == 1 .. 9
\* Mutant of IsTerminal: Terminating is taken for a terminal state too.
IsTerminalFromTerminating(job_state) == job_state >= 6

\* matches!(info.job_state, Aborted | Cancelled | Completed)
IsTerminal(job_state) == job_state \in {7, 8, 9}

----------------------------------------------------------------------------
(* Events.                                                                 *)

\* cause is an observer's tag: which call put the status on the stream.
StatusEvent(status, cause) == [t |-> "TransportStatus", status |-> status, cause |-> cause]
PacketEvent(p) == [t |-> "Packet", packet |-> p]
DeviceStatusEvent(v) == [t |-> "DeviceStatus", status |-> v]
JobStatusEvent(info) == [t |-> "JobStatus", info |-> info]
ErrorEvent(e) == [t |-> "Error", err |-> e]

----------------------------------------------------------------------------
(* The transport behind the mutex: MockTransport or WebSerialTransport.    *)

TransportKinds == {"mock", "serial"}

\* The tasks whose write-completion signal is still unresolved.
InFlight == {p \in Tasks : wdone[p] = "pending"}

\* send_packet returns Ok: the mock always does; the serial transport needs its
\* action channel (tx is Some) and the handler still holding the receiver.
SendPacketOk ==
    \/ transport.kind = "mock"
    \/ (transport.tx /\ transport.handler = "running")

\* Mutant of LockAfterSendPacket: the guard is dropped as soon as send_packet
\* has returned, before the write-completion signal is awaited.
LockReleasedAfterSendPacket(p) == "free"

\* Owner of the transport mutex once send_packet has returned Ok: the MutexGuard
\* is a temporary of the whole statement `lock().await.send_packet(..).await?.await?`
\* and is dropped only after the write-completion signal has been awaited.
LockAfterSendPacket(p) == p

\* `self.transport.lock().await.send_packet(packet).await` by task p.
SendPacket(p) ==
    /\ tlock = "free"
    /\ wire' = Append(wire, [packet |-> pkt[p], by |-> p, ok |-> SendPacketOk,
                             inflight |-> Cardinality(InFlight),
                             sending |-> sending])
    /\ IF SendPacketOk
       THEN /\ tlock' = LockAfterSendPacket(p)
            /\ IF transport.kind = "mock"
               THEN \* MockTransport::send_packet resolves the signal at once
                    /\ wdone' = [wdone EXCEPT ![p] = "done"]
                    /\ UNCHANGED action_q
               ELSE /\ wdone' = [wdone EXCEPT ![p] = "pending"]
                    /\ action_q' = Append(action_q,
                                     [t |-> "SendPacket", by |-> p, packet |-> pkt[p]])
       ELSE UNCHANGED <<codecVars, tlock, wdone, action_q>>

\* The statement's end: the MutexGuard temporary is dropped.
Unlock(p) == IF tlock = p THEN "free" ELSE tlock

\* Dropping the queued actions drops their completion senders.
CancelQueued(w) ==
    [p \in Tasks |-> IF w[p] = "pending" THEN "canceled" ELSE w[p]]

\* event_rx is gone with the relay task: event_tx.is_closed(), and a send on
\* event_tx returns an error.
EventSinkClosed == ready.relay = "exited"

\* event_tx.send(e) as the queue after it: on a closed channel the event is
\* lost.
Enqueue(e) == IF EventSinkClosed THEN event_q ELSE Append(event_q, e)

\* The task spawned at the end of TransportManager::new: lock, then start.
StartBegin ==
    /\ pc[Starter] = "spawned"
    /\ tlock = "free"
    /\ \/ /\ transport.kind = "mock"
          /\ event_q' = Enqueue(StatusEvent("Disconnected", "start"))
          /\ pc' = [pc EXCEPT ![Starter] = "done"]
          /\ UNCHANGED tlock
       \/ /\ transport.kind = "serial"      \* navigator has no serial API
          /\ event_q' = Enqueue(ErrorEvent("start"))
          /\ pc' = [pc EXCEPT ![Starter] = "done"]
          /\ UNCHANGED tlock
       \/ /\ transport.kind = "serial"
          /\ event_q' = Enqueue(StatusEvent("Connecting", "start"))
          /\ IF EventSinkClosed
             THEN \* `.await?`: start returns the send error
                  /\ pc' = [pc EXCEPT ![Starter] = "done"]
                  /\ UNCHANGED tlock
             ELSE /\ pc' = [pc EXCEPT ![Starter] = "start_port"]
                  /\ tlock' = Starter
    /\ UNCHANGED <<codecVars, MESSAGE_ID, returned, sending, pending, delivered, ready, transport,
                   action_q, port_out, wire, wdone, pkt, rx, resp, ret, sd, progress,
                   poll, script, overlap>>

\* WebSerialTransport::start after request_port / open have settled.
StartPort ==
    /\ pc[Starter] = "start_port"
    /\ \/ /\ event_q' = Enqueue(ErrorEvent("start"))
          /\ UNCHANGED transport
       \/ /\ event_q' = Enqueue(StatusEvent("Connected", "start"))
          /\ transport' = IF EventSinkClosed
                          THEN transport    \* `.await?` before the handler starts
                          ELSE [transport EXCEPT !.tx = TRUE, !.handler = "running"]
    /\ pc' = [pc EXCEPT ![Starter] = "done"]
    /\ tlock' = "free"
    /\ UNCHANGED <<codecVars, MESSAGE_ID, returned, sending, pending, delivered, ready,
                   action_q, port_out, wire, wdone, pkt, rx, resp, ret, sd, progress,
                   poll, script, overlap>>

\* action_task, SendPacket branch: the chunk was written to the port.
HandlerWrite ==
    /\ transport.handler = "running"
    /\ action_q # <<>>
    /\ Head(action_q).t = "SendPacket"
    /\ LET a == Head(action_q) IN
         /\ wdone' = [wdone EXCEPT ![a.by] = "done"]
         /\ port_out' = IF a.packet.content_type = "Message"
                        THEN port_out \cup {a.packet} ELSE port_out
    /\ action_q' = Tail(action_q)
    /\ UNCHANGED <<codecVars, MESSAGE_ID, returned, sending, pending, event_q, delivered, ready,
                   tlock, transport, wire, pc, pkt, rx, resp, ret, sd, progress,
                   poll, script, overlap>>

\* action_task, SendPacket branch: write_with_chunk failed; run() reports the
\* error and goes on to close the port.
HandlerWriteFails ==
    /\ transport.handler = "running"
    /\ action_q # <<>>
    /\ Head(action_q).t = "SendPacket"
    /\ wdone' = CancelQueued(wdone)
    /\ action_q' = <<>>
    /\ event_q' = Enqueue(ErrorEvent("write"))
    /\ transport' = [transport EXCEPT !.handler = "closing", !.cause = "fault"]
    /\ UNCHANGED <<codecVars, MESSAGE_ID, returned, sending, pending, delivered, ready, tlock,
                   port_out, wire, pc, pkt, rx, resp, ret, sd, progress, poll, script,
                   overlap>>

\* action_task, Disconnect branch: stop the handler.
HandlerDisconnect ==
    /\ transport.handler = "running"
    /\ action_q # <<>>
    /\ Head(action_q).t = "Disconnect"
    /\ wdone' = CancelQueued(wdone)
    /\ action_q' = <<>>
    /\ transport' = [transport EXCEPT !.handler = "closing",
                                      !.cause = Head(action_q).by]
    /\ UNCHANGED <<codecVars, MESSAGE_ID, returned, sending, pending, event_q, delivered, ready,
                   tlock, port_out, wire, pc, pkt, rx, resp, ret, sd, progress, poll,
                   script, overlap>>

\* read_task returns (the stream is done): run() goes on to close the port.
HandlerReadEnds ==
    /\ transport.handler = "running"
    /\ wdone' = CancelQueued(wdone)
    /\ action_q' = <<>>
    /\ transport' = [transport EXCEPT !.handler = "closing", !.cause = "fault"]
    /\ UNCHANGED <<codecVars, MESSAGE_ID, returned, sending, pending, event_q, delivered, ready,
                   tlock, port_out, wire, pc, pkt, rx, resp, ret, sd, progress, poll,
                   script, overlap>>

\* run() after the select: close the port, then report Disconnected.
HandlerClose ==
    /\ transport.handler = "closing"
    /\ \/ event_q' = Enqueue(ErrorEvent("close"))
       \/ event_q' = Enqueue(StatusEvent("Disconnected", transport.cause))
    /\ transport' = [transport EXCEPT !.handler = "stopped"]
    /\ UNCHANGED <<codecVars, MESSAGE_ID, returned, sending, pending, delivered, ready, tlock,
                   action_q, port_out, wire, wdone, pc, pkt, rx, resp, ret, sd,
                   progress, poll, script, overlap>>

----------------------------------------------------------------------------
(* TransportManager.                                                       *)

\* MESSAGE_ID.fetch_add(1, SeqCst): the value returned is the old one.
next_message_id == MESSAGE_ID
FetchAdd(p) ==
    /\ MESSAGE_ID' = WrappingAdd1(MESSAGE_ID)
    /\ returned' = Append(returned, [by |-> p, id |-> next_message_id])

NoRx == [st |-> "none"]
NoResp == [r |-> "none"]
Err(e) == [r |-> "Err", err |-> e]
Ok(packet) == [r |-> "Ok", packet |-> packet]

\* Mutant of RemoveKey: the entry stays in the table.
RemoveKeyNever(f, k) == f

\* HashMap::remove
RemoveKey(f, k) == [x \in DOMAIN f \ {k} |-> f[x]]
\* Mutant of InsertKey: the entry is not in the table when the frame goes out.
InsertKeyLate(f, k, v) == f

\* HashMap::insert
InsertKey(f, k, v) == [x \in DOMAIN f \cup {k} |-> IF x = k THEN v ELSE f[x]]

\* Mutant of PendingKey: the relay resolves whichever entry it finds first.
PendingKeyAny(packet) ==
    IF DOMAIN pending = {} THEN JsonId(packet) ELSE CHOOSE k \in DOMAIN pending : TRUE

\* The key the relay looks up: the id field of the JSON payload.
PendingKey(packet) == JsonId(packet)

\* Mutant of Callback: a Packet event that resolves no pending request is
\* not passed on.
CallbackUnlessUnmatched(log, e) ==
    IF e.t = "Packet" /\ ~(HasJsonId(e.packet) /\ JsonId(e.packet) \in DOMAIN pending)
    THEN log ELSE Append(log, e)

\* `cb(event)` at the end of every iteration of the relay loop (mod.rs:247),
\* as the log of the callback's calls after it.
Callback(log, e) == Append(log, e)

\* Mutant of ReadySignal: any transport status marks the connection ready.
ReadySignalOnAnyStatus(e) ==
    IF e.t = "TransportStatus" THEN [ready EXCEPT !.tx = "sent"] ELSE ready

\* The Connected branch of the relay: `ready_tx.take()` gives the sender the
\* first time only, and it is sent on then.
ReadySignal(e) ==
    IF e.t = "TransportStatus" /\ e.status = "Connected" /\ ready.tx = "unsent"
    THEN [ready EXCEPT !.tx = "sent"] ELSE ready

\* The relay task (mod.rs:221): one event from event_rx, correlation, then cb.
Relay ==
    /\ ready.relay = "running"
    /\ event_q # <<>>
    /\ LET e == Head(event_q) IN
         /\ event_q' = Tail(event_q)
         /\ delivered' = Callback(delivered, e)
         /\ IF e.t = "Packet" /\ HasJsonId(e.packet)
                 /\ PendingKey(e.packet) \in DOMAIN pending
            THEN LET k == PendingKey(e.packet)
                     q == pending[k]
                 IN /\ pending' = RemoveKey(pending, k)
                    \* oneshot::Sender::send fails when the receiver is gone
                    /\ rx' = IF rx[q] = [st |-> "empty", key |-> k]
                             THEN [rx EXCEPT ![q] = [st |-> "full", key |-> k,
                                                     packet |-> e.packet]]
                             ELSE rx
            ELSE UNCHANGED <<codecVars, pending, rx>>
         /\ ready' = ReadySignal(e)
    /\ UNCHANGED <<codecVars, MESSAGE_ID, returned, sending, tlock, transport, action_q, port_out,
                   wire, wdone, pc, pkt, resp, ret, sd, progress, poll, script, overlap>>

\* The relay task ends while the manager lives on (a panic in the callback
\* unwinds the spawned task): event_rx and ready_tx are dropped with it.  So is
\* its clone of the Rc around the pending map, but the manager holds another
\* one, so the map and the senders in it stay.
RelayExit ==
    /\ ready.relay = "running"
    /\ ready' = [tx |-> IF ready.tx = "unsent" THEN "dropped" ELSE ready.tx,
                 relay |-> "exited"]
    /\ event_q' = <<>>
    /\ UNCHANGED <<codecVars, MESSAGE_ID, returned, sending, pending, delivered, tlock, transport,
                   action_q, port_out, wire, wdone, pc, pkt, rx, resp, ret, sd,
                   progress, poll, script, overlap>>

\* Mutant of DisconnectOrder: the transport is asked first.
DisconnectOrderSwapped == <<"transport", "event">>

\* The two statements of disconnect(), in program order: the status event
\* goes on the stream, then the transport is locked and asked to disconnect.
DisconnectOrder == <<"event", "transport">>

\* TransportControl::disconnect of the transport behind the mutex, as
\* <<result, action queue after>>.
TransportDisconnect(p) ==
    IF transport.kind = "mock" THEN <<"Ok", action_q>>
    ELSE IF ~transport.tx THEN <<"ErrNotStarted", action_q>>
    ELSE IF transport.handler # "running" THEN <<"ErrSend", action_q>>
    ELSE <<"Ok", Append(action_q, [t |-> "Disconnect", by |-> p])>>

\* One statement of disconnect() by caller p.
DisconnectStatement(p, stmt) ==
    IF stmt = "event"
    THEN /\ event_q' = Append(event_q, StatusEvent("Disconnecting", p))
         /\ UNCHANGED <<codecVars, action_q, ret>>
    ELSE /\ tlock = "free"
         /\ action_q' = TransportDisconnect(p)[2]
         /\ ret' = [ret EXCEPT ![p] = TransportDisconnect(p)[1]]
         /\ UNCHANGED event_q

\* disconnect(), first statement.
DisconnectCall(p) ==
    /\ pc[p] = "idle"
    /\ DisconnectStatement(p, DisconnectOrder[1])
    /\ pc' = [pc EXCEPT ![p] = "dc_second"]
    /\ UNCHANGED <<codecVars, MESSAGE_ID, returned, sending, pending, delivered, ready, tlock,
                   transport, port_out, wire, wdone, pkt, rx, resp, sd,
                   progress, poll, script, overlap>>

\* disconnect(), second statement and return.
DisconnectReturn(p) ==
    /\ pc[p] = "dc_second"
    /\ DisconnectStatement(p, DisconnectOrder[2])
    /\ pc' = [pc EXCEPT ![p] = "done"]
    /\ UNCHANGED <<codecVars, MESSAGE_ID, returned, sending, pending, delivered, ready, tlock,
                   transport, port_out, wire, wdone, pkt, rx, resp, sd,
                   progress, poll, script, overlap>>

\* wait_for_response, `self.pending.lock().await.insert(packet.msg_number, tx)`.
\* A replaced entry's sender is dropped: its receiver is cancelled.
WfrInsert(p) ==
    /\ pc[p] = "wfr_insert"
    /\ LET k == pkt[p].msg_number IN
         /\ pending' = InsertKey(pending, k, p)
         /\ rx' = [q \in Tasks |->
                     IF q = p THEN [st |-> "empty", key |-> k]
                     ELSE IF rx[q] = [st |-> "empty", key |-> k]
                          THEN [st |-> "canceled", key |-> k]
                          ELSE rx[q]]
    /\ pc' = [pc EXCEPT ![p] = "wfr_send"]
    /\ UNCHANGED <<codecVars, MESSAGE_ID, returned, sending, event_q, delivered, ready, tlock,
                   transport, action_q, port_out, wire, wdone, pkt, resp, ret, sd,
                   progress, poll, script, overlap>>

\* wait_for_response, `self.transport.lock().await.send_packet(packet).await?`.
WfrSend(p) ==
    /\ pc[p] = "wfr_send"
    /\ SendPacket(p)
    /\ IF SendPacketOk
       THEN /\ pc' = [pc EXCEPT ![p] = "wfr_written"]
            /\ UNCHANGED <<codecVars, resp, rx>>
       ELSE /\ pc' = [pc EXCEPT ![p] = "wfr_done"]
            /\ resp' = [resp EXCEPT ![p] = Err("send")]
            /\ rx' = [rx EXCEPT ![p] = NoRx]
    /\ UNCHANGED <<codecVars, MESSAGE_ID, returned, sending, pending, event_q, delivered, ready,
                   transport, port_out, pkt, ret, sd, progress, poll, script, overlap>>

\* wait_for_response, `.await?` on the write-completion signal.
WfrWritten(p) ==
    /\ pc[p] = "wfr_written"
    /\ wdone[p] \in {"done", "canceled"}
    /\ IF wdone[p] = "done"
       THEN /\ pc' = [pc EXCEPT ![p] = "wfr_recv"]
            /\ UNCHANGED <<codecVars, resp, rx>>
       ELSE /\ pc' = [pc EXCEPT ![p] = "wfr_done"]
            /\ resp' = [resp EXCEPT ![p] = Err("canceled")]
            /\ rx' = [rx EXCEPT ![p] = NoRx]
    /\ wdone' = [wdone EXCEPT ![p] = "none"]
    /\ tlock' = Unlock(p)
    /\ UNCHANGED <<codecVars, MESSAGE_ID, returned, sending, pending, event_q, delivered, ready,
                   transport, action_q, port_out, wire, pkt, ret, sd, progress, poll,
                   script, overlap>>

\* Mutant of ReceiverResolved: the wait also ends when nothing has arrived.
ReceiverResolvedOrTimedOut(r) == TRUE

\* `rx.await` completes: a value was sent, or the sender was dropped.
ReceiverResolved(r) == r.st \in {"full", "canceled"}

\* wait_for_response, `rx.await.map_err(Into::into)`.
WfrRecv(p) ==
    /\ pc[p] = "wfr_recv"
    /\ ReceiverResolved(rx[p])
    /\ resp' = [resp EXCEPT ![p] = IF rx[p].st = "full" THEN Ok(rx[p].packet)
                                   ELSE Err("canceled")]
    /\ rx' = [rx EXCEPT ![p] = NoRx]
    /\ pc' = [pc EXCEPT ![p] = "wfr_done"]
    /\ UNCHANGED <<codecVars, MESSAGE_ID, returned, sending, pending, event_q, delivered, ready,
                   tlock, transport, action_q, port_out, wire, wdone, pkt, ret, sd,
                   progress, poll, script, overlap>>

\* A direct caller (as print_canvas and the debug menu do): a fresh id, a JSON
\* request with msg_number = id, then wait_for_response.
WaitCall(p) ==
    /\ pc[p] = "idle"
    /\ FetchAdd(p)
    /\ pkt' = [pkt EXCEPT ![p] =
                 JsonRequest(next_message_id,
                             [id |-> next_message_id, method |-> "resume-printer"])]
    /\ pc' = [pc EXCEPT ![p] = "wfr_insert"]
    /\ UNCHANGED <<codecVars, sending, pending, event_q, delivered, ready, tlock, transport,
                   action_q, port_out, wire, wdone, rx, resp, ret, sd, progress, poll,
                   script, overlap>>

\* wait_for_response returns to its direct caller.
WaitReturn(p) ==
    /\ pc[p] = "wfr_done"
    /\ ret' = [ret EXCEPT ![p] = resp[p].r]
    /\ pc' = [pc EXCEPT ![p] = "done"]
    /\ UNCHANGED <<codecVars, MESSAGE_ID, returned, sending, pending, event_q, delivered, ready,
                   tlock, transport, action_q, port_out, wire, wdone, pkt, rx, resp, sd,
                   progress, poll, script, overlap>>

----------------------------------------------------------------------------
(* The device: answers the requests written to the port.  The read task     *)
(* puts each decoded inbound frame on the event stream as a Packet event.   *)

StatusResult == [shape |-> "status", v |-> <<20, 2000, "">>]
PlainResult == [shape |-> "value"]
JobsResult(infos) == [shape |-> "jobs", v |-> infos]
JobInfo(job_id, job_state) == [job_id |-> job_id, job_state |-> job_state]

\* The result the device gives to a request.
ResultFor(request) ==
    IF request.data.obj.method = "get-prop" THEN StatusResult
    ELSE IF request.data.obj.method = "get-job-info" THEN Head(script)
    ELSE PlainResult

DeviceReply ==
    /\ transport.handler = "running"
    /\ \E request \in port_out :
         /\ request.data.obj.method = "get-job-info" => script # <<>>
         /\ event_q' = Enqueue(
               PacketEvent(JsonResponse([id |-> JsonId(request),
                                         result |-> ResultFor(request)])))
         /\ script' = IF request.data.obj.method = "get-job-info"
                      THEN Tail(script) ELSE script
         /\ port_out' = port_out \ {request}
    /\ UNCHANGED <<codecVars, MESSAGE_ID, returned, sending, pending, delivered, ready, tlock,
                   transport, action_q, wire, wdone, pc, pkt, rx, resp, ret, sd,
                   progress, poll, overlap>>

MaxStray == 1

\* Frames the device sends that answer no outstanding request: a JSON message
\* without an id, a Data frame, and JSON messages with an id of their own.
StrayFrames ==
    {JsonResponse([result |-> PlainResult]),
     [JsonResponse([id |-> U32(1)]) EXCEPT !.content_type = "Data",
                                           !.encoding_type = "Hexadecimal"],
     JsonResponse([id |-> U32(1), result |-> [shape |-> "stray"]]),
     JsonResponse([id |-> U32(9), result |-> [shape |-> "stray"]])}

DeviceStray ==
    /\ transport.handler = "running"
    /\ poll.stray < MaxStray
    /\ \E f \in StrayFrames : event_q' = Enqueue(PacketEvent(f))
    /\ poll' = [poll EXCEPT !.stray = @ + 1]
    /\ UNCHANGED <<codecVars, MESSAGE_ID, returned, sending, pending, delivered, ready, tlock,
                   transport, action_q, port_out, wire, wdone, pc, pkt, rx, resp, ret,
                   sd, progress, script, overlap>>

----------------------------------------------------------------------------
(* The status poller (mod.rs:142).                                         *)

MaxPollTicks == 2

\* Mutant of SkipCycle: the poller never looks at the flag.
SkipCycleNever == FALSE

\* `if sending.load(SeqCst) { continue; }`
SkipCycle == sending

\* `ready_rx.await`: the poller starts once the relay has seen Connected.
PollerReady ==
    /\ pc[StatusPoller] = "await_ready"
    /\ ready.tx = "sent"
    /\ pc' = [pc EXCEPT ![StatusPoller] = "tick"]
    /\ UNCHANGED <<codecVars, MESSAGE_ID, returned, sending, pending, event_q, delivered, ready,
                   tlock, transport, action_q, port_out, wire, wdone, pkt, rx, resp,
                   ret, sd, progress, poll, script, overlap>>

\* One tick of the interval stream: skip the cycle, or build a get-prop request.
PollerTick ==
    /\ pc[StatusPoller] = "tick"
    /\ Len(poll.cycles) < MaxPollTicks
    /\ IF SkipCycle
       THEN /\ poll' = [poll EXCEPT !.cycles = Append(@, "skip")]
            /\ UNCHANGED <<codecVars, MESSAGE_ID, returned, pkt, pc>>
       ELSE /\ poll' = [poll EXCEPT !.cycles = Append(@, "request")]
            /\ FetchAdd(StatusPoller)
            /\ pkt' = [pkt EXCEPT ![StatusPoller] = GetPropRequest(next_message_id)]
            /\ pc' = [pc EXCEPT ![StatusPoller] = "wfr_insert"]
    /\ UNCHANGED <<codecVars, sending, pending, event_q, delivered, ready, tlock, transport,
                   action_q, port_out, wire, wdone, rx, resp, ret, sd, progress,
                   script, overlap>>

\* Mutant of PollerAfter: a failed wait is followed by the next tick.
PollerAfterRetry(r) == "tick"

\* Where the loop goes after wait_for_response: `break` on Err, and on Ok to
\* the end of the body and the next tick, decoded or not.
PollerAfter(r) == IF r.r = "Err" THEN "ended" ELSE "tick"

\* The rest of the cycle, after wait_for_response has returned.
PollerResponse ==
    /\ pc[StatusPoller] = "wfr_done"
    /\ IF resp[StatusPoller].r = "Err"
       THEN /\ pc' = [pc EXCEPT ![StatusPoller] = PollerAfter(resp[StatusPoller])]
            /\ UNCHANGED event_q
       ELSE /\ pc' = [pc EXCEPT ![StatusPoller] = PollerAfter(resp[StatusPoller])]
            /\ event_q' = IF HasResult(resp[StatusPoller].packet, "status")
                          THEN Append(event_q, DeviceStatusEvent(
                                   resp[StatusPoller].packet.data.obj.result.v))
                          ELSE event_q
    /\ resp' = [resp EXCEPT ![StatusPoller] = NoResp]
    /\ UNCHANGED <<codecVars, MESSAGE_ID, returned, sending, pending, delivered, ready, tlock,
                   transport, action_q, port_out, wire, wdone, pkt, rx, ret, sd,
                   progress, poll, script, overlap>>

----------------------------------------------------------------------------
(* send_data (mod.rs:385) and SendingDropGuard (mod.rs:436).               *)

ChunkSize == MAX_DATA_SIZE - 4

Min(a, b) == IF a < b THEN a ELSE b

\* data.chunks(MAX_DATA_SIZE - 4): slices of ChunkSize elements, the last one
\* shorter when the length is no multiple of it; no slice for an empty input.
RECURSIVE Chunks(_)
Chunks(data) ==
    IF data = <<>> THEN <<>>
    ELSE LET n == Min(ChunkSize, Len(data)) IN
         <<SubSeq(data, 1, n)>> \o Chunks(SubSeq(data, n + 1, Len(data)))

\* The chunk the enumerate() of the loop pairs with this 0-based index.
Chunk(data, index) == Chunks(data)[index + 1]

\* Mutant of FlagAfterNew: the flag is flipped.
FlagAfterNewFlipped(old) == ~old

\* `sending.swap(true, SeqCst)` in SendingDropGuard::new: the flag is set
\* whatever it was before, also when the guard is refused.
FlagAfterNew(old) == TRUE

\* Mutant of GuardAcquired: the guard is handed out whatever the flag says.
GuardIgnoresFlag == TRUE

\* SendingDropGuard::new returns Some: `sending.swap(true)` returned false.
GuardAcquired == ~sending

\* Mutant of DropGuard: the flag stays set when a write was cancelled.
DropGuardUnlessCanceled(exit) == exit = "write_err"

\* Mutant of DropGuard: the flag is reset on the success path only.
DropGuardOnSuccessOnly(exit) == exit # "ok"

\* The flag after SendingDropGuard::drop, on each exit path of send_data.
DropGuard(exit) == FALSE

\* The calls that hold the guard: past it and not yet returned.
PastGuard == {p \in SendCallers : pc[p] \in {"sd_send", "sd_written", "sd_return"}}

JobIds == {U32(42), U32(65536 + 258)}

\* The payloads callers pass to send_data, by length.
Payload(len) == [i \in 1 .. len |-> (7 * i + 3) % 251]

\* The callers are interchangeable: they are numbered in the order they call.
CallsInOrder(p) ==
    /\ p = "sd2" => pc["sd1"] # "idle"
    /\ p = "sd3" => pc["sd2"] # "idle"

\* The guard, the chunk count and the first chunk's packet.
SendDataStart(p, job_id, data) ==
    /\ pc[p] = "idle"
    /\ CallsInOrder(p)
    /\ overlap' = [overlap EXCEPT ![p] = (PastGuard # {})]
    /\ IF GuardAcquired
       THEN LET count == DivCeil(Len(data), ChunkSize) IN
            /\ sending' = FlagAfterNew(sending)
            /\ sd' = [sd EXCEPT ![p] = [job_id |-> job_id, data |-> data,
                                        count |-> count, index |-> 0]]
            /\ IF Chunks(data) = <<>>
               THEN /\ pc' = [pc EXCEPT ![p] = "sd_return"]
                    /\ UNCHANGED <<codecVars, MESSAGE_ID, returned, pkt>>
               ELSE /\ FetchAdd(p)
                    /\ pkt' = [pkt EXCEPT ![p] =
                         DataPacket(next_message_id, job_id, Chunk(data, 0), count, 0)]
                    /\ pc' = [pc EXCEPT ![p] = "sd_send"]
            /\ UNCHANGED ret
       ELSE /\ ret' = [ret EXCEPT ![p] = "ErrAlreadySending"]
            /\ pc' = [pc EXCEPT ![p] = "done"]
            /\ sending' = FlagAfterNew(sending)
            /\ UNCHANGED <<codecVars, MESSAGE_ID, returned, sd, pkt>>
    /\ UNCHANGED <<codecVars, pending, event_q, delivered, ready, tlock, transport, action_q,
                   port_out, wire, wdone, rx, resp, progress, poll, script>>

\* `self.transport.lock().await.send_packet(packet).await?` for one chunk.
SendDataSend(p) ==
    /\ pc[p] = "sd_send"
    /\ SendPacket(p)
    /\ IF SendPacketOk
       THEN /\ pc' = [pc EXCEPT ![p] = "sd_written"]
            /\ UNCHANGED <<codecVars, ret, sending>>
       ELSE /\ pc' = [pc EXCEPT ![p] = "done"]
            /\ ret' = [ret EXCEPT ![p] = "ErrSend"]
            /\ sending' = DropGuard("send_err")
    /\ UNCHANGED <<codecVars, MESSAGE_ID, returned, pending, event_q, delivered, ready, transport,
                   port_out, pkt, rx, resp, sd, progress, poll, script, overlap>>

\* Mutant of ProgressCall: the loop index is passed as it is.
ProgressCallZeroBased(count, index) == <<count, index>>

\* `f(count, index + 1)`: the arguments of one call of the progress function.
ProgressCall(count, index) == <<count, index + 1>>

\* Mutant of WriteOutcome: the loop goes on as soon as send_packet has
\* returned the signal, without awaiting it.
WriteOutcomeUnawaited(p) == IF wdone[p] = "pending" THEN "done" ELSE wdone[p]

\* What the second `.await?` of the statement gives once the write-completion
\* receiver has resolved: "done" for Ok(()), "canceled" for Err(Canceled).
WriteOutcome(p) == wdone[p]

\* `.await?` on the write-completion signal, f(count, index + 1), and the next
\* chunk's packet.
SendDataWritten(p) ==
    /\ pc[p] = "sd_written"
    /\ WriteOutcome(p) \in {"done", "canceled"}
    /\ wdone' = [wdone EXCEPT ![p] = "none"]
    /\ tlock' = Unlock(p)
    /\ IF WriteOutcome(p) = "done"
       THEN LET next == sd[p].index + 1 IN
            /\ progress' = [progress EXCEPT ![p] = Append(@, ProgressCall(sd[p].count, sd[p].index))]
            /\ sd' = [sd EXCEPT ![p].index = next]
            /\ IF next < Len(Chunks(sd[p].data))
               THEN /\ FetchAdd(p)
                    /\ pkt' = [pkt EXCEPT ![p] =
                         DataPacket(next_message_id, sd[p].job_id,
                                    Chunk(sd[p].data, next), sd[p].count, next)]
                    /\ pc' = [pc EXCEPT ![p] = "sd_send"]
               ELSE /\ pc' = [pc EXCEPT ![p] = "sd_return"]
                    /\ UNCHANGED <<codecVars, MESSAGE_ID, returned, pkt>>
            /\ UNCHANGED <<codecVars, ret, sending>>
       ELSE /\ pc' = [pc EXCEPT ![p] = "done"]
            /\ ret' = [ret EXCEPT ![p] = "ErrCanceled"]
            /\ sending' = DropGuard("write_err")
            /\ UNCHANGED <<codecVars, MESSAGE_ID, returned, pkt, sd, progress>>
    /\ UNCHANGED <<codecVars, pending, event_q, delivered, ready, transport, action_q, port_out,
                   wire, rx, resp, poll, script, overlap>>

\* The loop is over: Ok(()), and the guard is dropped.
SendDataReturn(p) ==
    /\ pc[p] = "sd_return"
    /\ ret' = [ret EXCEPT ![p] = "Ok"]
    /\ sending' = DropGuard("ok")
    /\ pc' = [pc EXCEPT ![p] = "done"]
    /\ UNCHANGED <<codecVars, MESSAGE_ID, returned, pending, event_q, delivered, ready, tlock,
                   transport, action_q, port_out, wire, wdone, pkt, rx, resp, sd,
                   progress, poll, script, overlap>>

----------------------------------------------------------------------------
(* poll_job (mod.rs:307).                                                  *)

\* Mutant of DecodesAsJobs: a result without a record does not decode.
DecodesAsJobsNonEmpty(packet) ==
    /\ packet.data.kind = "json"
    /\ "result" \in DOMAIN packet.data.obj
    /\ packet.data.obj.result.shape = "jobs"
    /\ packet.data.obj.result.v # <<>>
    /\ \A i \in 1 .. Len(packet.data.obj.result.v) :
           packet.data.obj.result.v[i].job_state \in JobStates

\* as_json::<AvocadoResult<Vec<JobStatusInfo>>>: every job_state must be a
\* JobState primitive.
DecodesAsJobs(packet) ==
    /\ HasResult(packet, "jobs")
    /\ \A i \in 1 .. Len(packet.data.obj.result.v) :
           packet.data.obj.result.v[i].job_state \in JobStates

\* poll_job is called: the interval stream is created.
PollJobCall(job_id) ==
    /\ pc[JobPoller] = "idle"
    /\ poll' = [poll EXCEPT !.job_id = job_id]
    /\ pc' = [pc EXCEPT ![JobPoller] = "tick"]
    /\ UNCHANGED <<codecVars, MESSAGE_ID, returned, sending, pending, event_q, delivered, ready,
                   tlock, transport, action_q, port_out, wire, wdone, pkt, rx, resp,
                   ret, sd, progress, script, overlap>>

\* Mutant of PollJobReturn: giving up is reported as an error.
PollJobReturnErrOnGiveUp(exit) == IF exit = "terminal" THEN "Ok" ELSE "Err"

\* The value poll_job returns after its loop, whichever `break` ended it:
\* `Ok(())` (mod.rs:378).
PollJobReturn(exit) == "Ok"

\* One tick: `event_tx.is_closed()` ends the loop; otherwise a get-job-info
\* request with a fresh id.
PollJobTick ==
    /\ pc[JobPoller] = "tick"
    /\ IF EventSinkClosed
       THEN /\ pc' = [pc EXCEPT ![JobPoller] = "done"]
            /\ ret' = [ret EXCEPT ![JobPoller] = PollJobReturn("sink_closed")]
            /\ poll' = [poll EXCEPT !.exit = "sink_closed"]
            /\ UNCHANGED <<codecVars, MESSAGE_ID, returned, pkt>>
       ELSE /\ FetchAdd(JobPoller)
            /\ pkt' = [pkt EXCEPT ![JobPoller] =
                         GetJobInfoRequest(next_message_id, poll.job_id)]
            /\ poll' = [poll EXCEPT !.iterations = @ + 1]
            /\ pc' = [pc EXCEPT ![JobPoller] = "wfr_insert"]
            /\ UNCHANGED ret
    /\ UNCHANGED <<codecVars, sending, pending, event_q, delivered, ready, tlock, transport,
                   action_q, port_out, wire, wdone, rx, resp, sd, progress,
                   script, overlap>>

\* The rest of the iteration, after wait_for_response has returned.
PollJobResponse ==
    /\ pc[JobPoller] = "wfr_done"
    /\ LET r == resp[JobPoller]
           infos == r.packet.data.obj.result.v
       IN IF r.r = "Ok" /\ DecodesAsJobs(r.packet) /\ infos # <<>>
          THEN \* result.pop() takes the last record
               LET info == infos[Len(infos)] IN
               /\ event_q' = Enqueue(JobStatusEvent(info))
               /\ IF EventSinkClosed
                  THEN \* the send failed: `break`
                       /\ pc' = [pc EXCEPT ![JobPoller] = "done"]
                       /\ ret' = [ret EXCEPT ![JobPoller] = PollJobReturn("send_error")]
                       /\ poll' = [poll EXCEPT !.exit = "send_error"]
                  ELSE IF IsTerminal(info.job_state)
                  THEN /\ pc' = [pc EXCEPT ![JobPoller] = "done"]
                       /\ ret' = [ret EXCEPT ![JobPoller] = PollJobReturn("terminal")]
                       /\ poll' = [poll EXCEPT !.exit = "terminal"]
                  ELSE /\ pc' = [pc EXCEPT ![JobPoller] = "tick"]
                       /\ UNCHANGED <<codecVars, ret, poll>>
          ELSE /\ UNCHANGED event_q
               /\ IF r.r = "Ok" /\ DecodesAsJobs(r.packet)
                  THEN \* an empty result: `continue`
                       /\ pc' = [pc EXCEPT ![JobPoller] = "tick"]
                       /\ UNCHANGED <<codecVars, ret, poll>>
                  ELSE \* the wait failed or the response did not decode: `break`
                       LET exit == IF r.r = "Err" THEN "wait_error" ELSE "decode_error" IN
                       /\ pc' = [pc EXCEPT ![JobPoller] = "done"]
                       /\ ret' = [ret EXCEPT ![JobPoller] = PollJobReturn(exit)]
                       /\ poll' = [poll EXCEPT !.exit = exit]
    /\ resp' = [resp EXCEPT ![JobPoller] = NoResp]
    /\ UNCHANGED <<codecVars, MESSAGE_ID, returned, sending, pending, delivered, ready, tlock,
                   transport, action_q, port_out, wire, wdone, pkt, rx, sd, progress,
                   script, overlap>>

----------------------------------------------------------------------------
(* Initial states.  A specification starts the tasks it is about; the      *)
(* others are "off" and never run.                                         *)

StartPc(p) ==
    IF p = Starter THEN "spawned"
    ELSE IF p = StatusPoller THEN "await_ready"
    ELSE "idle"

\* The state TransportManager::new leaves, with the tasks in `active` spawned
\* or about to call.
InitAfterNew(active, kinds, scripts) ==
    /\ returned = <<>>
    /\ sending = FALSE
    /\ pending = <<>>
    /\ event_q = <<>>
    /\ delivered = <<>>
    /\ ready = [tx |-> "unsent", relay |-> "running"]
    /\ tlock = "free"
    /\ transport \in {[kind |-> k, tx |-> FALSE, handler |-> "none", cause |-> "none"]
                        : k \in kinds}
    /\ action_q = <<>>
    /\ port_out = {}
    /\ wire = <<>>
    /\ wdone = [p \in Tasks |-> "none"]
    /\ pc = [p \in Tasks |-> IF p \in active THEN StartPc(p) ELSE "off"]
    /\ pkt = [p \in Tasks |-> NoPacket]
    /\ rx = [p \in Tasks |-> NoRx]
    /\ resp = [p \in Tasks |-> NoResp]
    /\ ret = [p \in Tasks |-> "none"]
    /\ sd = [p \in SendCallers |-> [job_id |-> U32(0), data |-> <<>>,
                                    count |-> 0, index |-> 0]]
    /\ progress = [p \in SendCallers |-> <<>>]
    /\ script \in scripts
    /\ poll = [cycles |-> <<>>, iterations |-> 0, job_id |-> U32(0),
               exit |-> "none", stray |-> 0, script0 |-> script]
    /\ overlap = [p \in SendCallers |-> FALSE]
    /\ encoded = <<>>
    /\ cursor = [bytes |-> <<>>, pos |-> 0]
    /\ items = <<>>

----------------------------------------------------------------------------
(* SpecSend: three send_data calls against the status poller.              *)

\* static MESSAGE_ID: AtomicU32 = AtomicU32::new(1), then TransportManager::new.
InitManager(active, kinds, scripts) ==
    /\ MESSAGE_ID = U32(1)
    /\ InitAfterNew(active, kinds, scripts)

SendLens == {0, 1}

InitSend ==
    InitManager(SendCallers \cup {StatusPoller, Starter}, TransportKinds, {<<>>})

NextSend ==
    \/ StartBegin
    \/ StartPort
    \/ HandlerWrite
    \/ HandlerWriteFails
    \/ HandlerClose
    \/ Relay
    \/ DeviceReply
    \/ PollerReady
    \/ PollerTick
    \/ PollerResponse
    \/ \E p \in {StatusPoller} : WfrInsert(p) \/ WfrSend(p) \/ WfrWritten(p) \/ WfrRecv(p)
    \/ \E p \in SendCallers, len \in SendLens : SendDataStart(p, U32(42), Payload(len))
    \/ \E p \in SendCallers : SendDataSend(p) \/ SendDataWritten(p) \/ SendDataReturn(p)

SpecSend == InitSend /\ [][NextSend]_vars

----------------------------------------------------------------------------
(* Claims about the sending guard (SpecSend).                              *)

\* The frames send_packet accepted from task p.
FramesBy(p) == {i \in DOMAIN wire : wire[i].by = p /\ wire[i].ok}

\* C1: at most one send_data call is past the sending guard at any time; a call
\* that starts while another call is past the guard and has not returned fails
\* at once with the "already sending" error, and only then, and has handed no
\* frame to the transport.
C1_SendExclusive ==
    /\ Cardinality(PastGuard) <= 1
    /\ \A p \in SendCallers :
         /\ overlap[p] => (pc[p] = "done" /\ ret[p] = "ErrAlreadySending")
         /\ ret[p] = "ErrAlreadySending" => (overlap[p] /\ FramesBy(p) = {})

\* C1 witness: a call was rejected while another call, which has handed a frame
\* to the transport, is still past the guard.
C1_Witness ==
    \E p, q \in SendCallers :
        /\ ret[p] = "ErrAlreadySending"
        /\ q \in PastGuard
        /\ FramesBy(q) # {}

\* C2 as stated: the flag is clear right after either of two overlapping calls
\* completes, the rejected one included.
C2_ClearAfterAnyCall ==
    [][\A p \in SendCallers : (pc[p] # "done" /\ pc'[p] = "done") => ~sending']_vars

\* C2 amended: the flag is set exactly while a call holds the guard, so it is
\* clear right after the call that passed the guard completes on any exit path
\* (all chunks written, a write error, zero chunks); a call issued when no call
\* holds the guard passes it; a rejected call's return leaves the flag as it is.
C2_ClearAfterGuardedCall ==
    /\ [](sending <=> PastGuard # {})
    /\ [](\A p \in SendCallers :
            (pc[p] # "idle" /\ ~overlap[p]) => ret[p] # "ErrAlreadySending")
    /\ [][\A p \in SendCallers :
            /\ (p \in PastGuard /\ pc'[p] = "done") => ~sending'
            /\ (pc[p] = "idle" /\ ret'[p] = "ErrAlreadySending") => sending' = sending
         ]_vars

\* C2 witness: the first call failed on a write, the second was rejected while
\* the first was running, and the third, issued afterwards, holds the guard.
C2_Witness ==
    /\ ret["sd1"] \in {"ErrSend", "ErrCanceled"}
    /\ ret["sd2"] = "ErrAlreadySending"
    /\ "sd3" \in PastGuard

----------------------------------------------------------------------------
(* SpecWrite: every kind of caller of send_packet on one serial transport, *)
(* with a device that stays silent, so each request stays outstanding.     *)

InitWrite ==
    InitManager({"sd1", "w1", StatusPoller, JobPoller, Starter}, {"serial"}, {<<>>})

NextWrite ==
    \/ StartBegin
    \/ StartPort
    \/ HandlerWrite
    \/ Relay
    \/ PollerReady
    \/ PollerTick
    \/ PollJobCall(U32(42))
    \/ PollJobTick
    \/ WaitCall("w1")
    \/ \E p \in {"w1", StatusPoller, JobPoller} :
           WfrInsert(p) \/ WfrSend(p) \/ WfrWritten(p)
    \/ SendDataStart("sd1", U32(42), Payload(ChunkSize + 1))
    \/ SendDataSend("sd1")
    \/ SendDataWritten("sd1")
    \/ SendDataReturn("sd1")

SpecWrite == InitWrite /\ [][NextWrite]_vars

\* C8: at most one frame write is in flight on the transport: whoever calls
\* send_packet (wait_for_response for a direct caller, the status poller or
\* poll_job, or send_data for a chunk), no write-completion signal of an
\* earlier frame is unresolved at that moment.
C8_OneWriteInFlight ==
    /\ Cardinality(InFlight) <= 1
    /\ \A i \in DOMAIN wire : wire[i].inflight = 0

\* C8 witness: a chunk's write is in flight while the three other kinds of
\* caller each hold a packet and wait for the transport.
C8_Witness ==
    /\ wdone["sd1"] = "pending"
    /\ \A p \in {"w1", StatusPoller, JobPoller} : pc[p] = "wfr_send"

----------------------------------------------------------------------------
(* SpecCorr: two direct callers of wait_for_response and the relay.        *)

InitCorr == InitManager(WaitCallers \cup {Starter}, {"serial"}, {<<>>})

NextCorr ==
    \/ StartBegin
    \/ StartPort
    \/ HandlerWrite
    \/ HandlerWriteFails
    \/ HandlerClose
    \/ Relay
    \/ DeviceReply
    \/ DeviceStray
    \/ \E p \in WaitCallers :
           \/ WaitCall(p)
           \/ WfrInsert(p)
           \/ WfrSend(p)
           \/ WfrWritten(p)
           \/ WfrRecv(p)
           \/ WaitReturn(p)

SpecCorr == InitCorr /\ [][NextCorr]_vars

\* C3: with two wait_for_response calls outstanding under different message
\* ids, whatever the order in which the frames arrive, a call is only ever
\* resolved with a frame whose JSON id equals the msg_number it registered,
\* so never with the other call's frame.
C3_OwnFrame ==
    \A p \in WaitCallers :
        /\ rx[p].st = "full" =>
               (HasJsonId(rx[p].packet) /\ JsonId(rx[p].packet) = pkt[p].msg_number)
        /\ resp[p].r = "Ok" =>
               /\ HasJsonId(resp[p].packet)
               /\ JsonId(resp[p].packet) = pkt[p].msg_number
               /\ \A q \in WaitCallers \ {p} :
                      resp[q].r = "Ok" => resp[q].packet # resp[p].packet

\* The position in the callback's log of the first Packet event with this id.
DeliveredAt(id) ==
    {i \in DOMAIN delivered :
        /\ delivered[i].t = "Packet"
        /\ HasJsonId(delivered[i].packet)
        /\ JsonId(delivered[i].packet) = id}

\* C3 witness: both calls returned a frame, and the responses were relayed in
\* the reverse of the order in which the requests were written.
C3_Witness ==
    \E p, q \in WaitCallers :
        /\ resp[p].r = "Ok" /\ resp[q].r = "Ok"
        /\ \E i, j \in DOMAIN wire :
              i < j /\ wire[i].by = p /\ wire[j].by = q
        /\ \E i \in DeliveredAt(pkt[q].msg_number), j \in DeliveredAt(pkt[p].msg_number) :
              i < j

----------------------------------------------------------------------------
(* SpecIds: callers of next_message_id on the process-wide counter.        *)

MaxIdCalls == 4

\* The value of the counter after 2^32 - 3 calls in the process: 2^32 - 2.
AgedCounter == <<LimbMod - 1, LimbMod - 2>>

IdCallers == WaitCallers \cup {"sd1"}

\* next_message_id() called from one of the callers (mod.rs:276-280).
NextMessageIdCall(p) ==
    /\ Len(returned) < MaxIdCalls
    /\ FetchAdd(p)
    /\ UNCHANGED <<codecVars, sending, pending, event_q, delivered, ready, tlock, transport,
                   action_q, port_out, wire, wdone, pc, pkt, rx, resp, ret, sd,
                   progress, poll, script, overlap>>

InitIds ==
    /\ MESSAGE_ID \in {U32(1), AgedCounter}
    /\ InitAfterNew(IdCallers, {"mock"}, {<<>>})

NextIds == \E p \in IdCallers : NextMessageIdCall(p)

SpecIds == InitIds /\ [][NextIds]_vars

\* The values the counter handed out before the calls in `returned`: it
\* started at 1, so every value from 1 up to the first one logged.
IssuedEarlier(v) ==
    /\ returned # <<>>
    /\ U32Lt(U32(0), v)
    /\ U32Lt(v, returned[1].id)

\* C4: every call to next_message_id returns a value strictly greater than the
\* value of every call that completed before it, and no value the counter has
\* handed out is ever returned again.
C4_DistinctIncreasing ==
    /\ \A i, j \in DOMAIN returned : i < j => U32Lt(returned[i].id, returned[j].id)
    /\ \A i \in DOMAIN returned : ~IssuedEarlier(returned[i].id)

----------------------------------------------------------------------------
(* SpecChunk: one send_data call, over payloads around the chunk size.     *)

ChunkLens == {0, 1, ChunkSize - 1, ChunkSize, ChunkSize + 1, 2 * ChunkSize, 2000}

InitChunk == InitManager({"sd1", Starter}, TransportKinds, {<<>>})

NextChunk ==
    \/ StartBegin
    \/ StartPort
    \/ HandlerWrite
    \/ HandlerWriteFails
    \/ HandlerClose
    \/ Relay
    \/ \E job_id \in JobIds, len \in ChunkLens :
           SendDataStart("sd1", job_id, Payload(len))
    \/ SendDataSend("sd1")
    \/ SendDataWritten("sd1")
    \/ SendDataReturn("sd1")

SpecChunk == InitChunk /\ [][NextChunk]_vars

\* The payloads of the frames handed to the transport, in send order.
RECURSIVE FrameData(_)
FrameData(frames) ==
    IF frames = <<>> THEN <<>>
    ELSE <<Head(frames).packet.data.bytes>> \o FrameData(Tail(frames))

RECURSIVE Concat(_)
Concat(seqs) == IF seqs = <<>> THEN <<>> ELSE Head(seqs) \o Concat(Tail(seqs))

\* A frame's payload without its first four bytes.
StripPrefix(bytes) == SubSeq(bytes, 5, Len(bytes))

\* ceil(L / C), from quotient and remainder.
CeilOf(L, C) == (L \div C) + (IF L % C > 0 THEN 1 ELSE 0)

\* C5: a send_data call that returned Ok on a payload of length L handed
\* exactly ceil(L / 892) frames to the transport; the i-th has
\* msg_package_num = i and msg_package_total = ceil(L / 892), its payload
\* starts with the job id as four little-endian bytes, and the payloads without
\* that prefix concatenate, in send order, to the original payload; 2000 bytes
\* go out as chunks of 892, 892 and 216 bytes.
C5_Chunking ==
    ret["sd1"] = "Ok" =>
        LET L == Len(sd["sd1"].data)
            n == CeilOf(L, 892)
            bytes == FrameData(wire)
        IN  /\ ChunkSize = 892
            /\ Len(wire) = n
            /\ \A i \in 1 .. Len(wire) :
                  /\ wire[i].by = "sd1"
                  /\ wire[i].packet.msg_package_num = i
                  /\ wire[i].packet.msg_package_total = n
                  /\ SubSeq(bytes[i], 1, 4) = ToLeBytes(sd["sd1"].job_id)
            /\ Concat([i \in 1 .. Len(bytes) |-> StripPrefix(bytes[i])]) = sd["sd1"].data
            /\ L = 2000 =>
                  [i \in 1 .. Len(bytes) |-> Len(StripPrefix(bytes[i]))] = <<892, 892, 216>>

\* C5 witness: the 2000-byte payload went out in three frames and the call
\* returned Ok.
C5_Witness ==
    /\ ret["sd1"] = "Ok"
    /\ Len(sd["sd1"].data) = 2000
    /\ Len(wire) = 3
    /\ progress["sd1"] = <<<<3, 1>>, <<3, 2>>, <<3, 3>>>>

----------------------------------------------------------------------------
(* SpecPoll: poll_job against a device that answers from a script.         *)

MaxScript == 2

\* What the device may answer to one get-job-info request: one record in a
\* running, terminating or final state, two records, no record, a record
\* whose job_state is no JobState, or a result of another shape.
ScriptResults ==
    {JobsResult(<<JobInfo(U32(42), s)>>) : s \in {3, 6, 7, 8, 9}}
        \cup {JobsResult(<<JobInfo(U32(41), 3), JobInfo(U32(42), 6)>>),
              JobsResult(<<JobInfo(U32(41), 9), JobInfo(U32(42), 3)>>),
              JobsResult(<<>>),
              JobsResult(<<JobInfo(U32(42), 0)>>),
              PlainResult}

Scripts == UNION {[1 .. n -> ScriptResults] : n \in 1 .. MaxScript}

InitPoll == InitManager({JobPoller, Starter}, {"serial"}, Scripts)

NextPoll ==
    \/ StartBegin
    \/ StartPort
    \/ HandlerWrite
    \/ HandlerWriteFails
    \/ HandlerClose
    \/ Relay
    \/ DeviceReply
    \/ \E job_id \in JobIds : PollJobCall(job_id)
    \/ PollJobTick
    \/ PollJobResponse
    \/ WfrInsert(JobPoller)
    \/ WfrSend(JobPoller)
    \/ WfrWritten(JobPoller)
    \/ WfrRecv(JobPoller)

SpecPoll == InitPoll /\ [][NextPoll]_vars

\* Completed, Aborted and Cancelled, as the claim names them.
FinalStates == {7, 8, 9}

\* A response reports a final state when every record in it does.
ReportsFinal(result) == \A i \in DOMAIN result.v : result.v[i].job_state \in FinalStates
ReportsRunning(result) == \A i \in DOMAIN result.v : result.v[i].job_state \notin FinalStates

\* A script of job-status responses of which only the last reports a final state.
OnlyLastFinal(s) ==
    /\ s # <<>>
    /\ \A i \in DOMAIN s :
          /\ s[i].shape = "jobs"
          /\ s[i].v # <<>>
          /\ \A k \in DOMAIN s[i].v : s[i].v[k].job_state \in JobStates
          /\ IF i = Len(s) THEN ReportsFinal(s[i]) ELSE ReportsRunning(s[i])

IsJobStatus(e) == e.t = "JobStatus"
IsJobPollerFrame(w) == w.by = JobPoller

\* The JobStatus events emitted so far, in order.
JobStatusEvents == SelectSeq(delivered \o event_q, IsJobStatus)

\* C6: when the device answers from a script of n responses of which only the
\* last reports a final state (Completed, Aborted or Cancelled) and poll_job
\* has returned with every wait answered, it ran exactly n iterations and sent
\* n requests, and exactly n JobStatus events are on the event stream by then,
\* the i-th carrying the last record of the i-th response and so the last one
\* the final state.
C6_PollUntilFinal ==
    (/\ pc[JobPoller] = "done"
     /\ OnlyLastFinal(poll.script0)
     /\ poll.exit # "wait_error")
    => LET n == Len(poll.script0) IN
       /\ poll.exit = "terminal"
       /\ poll.iterations = n
       /\ Len(SelectSeq(wire, IsJobPollerFrame)) = n
       /\ Len(JobStatusEvents) = n
       /\ \A i \in 1 .. Len(JobStatusEvents) :
             JobStatusEvents[i].info = poll.script0[i].v[Len(poll.script0[i].v)]
       /\ JobStatusEvents[n].info.job_state \in FinalStates

\* C6 witness: a script of two responses, the first reporting a running job
\* and the second a final state, was polled to the end.
C6_Witness ==
    /\ pc[JobPoller] = "done"
    /\ OnlyLastFinal(poll.script0)
    /\ Len(poll.script0) = 2
    /\ poll.exit = "terminal"
    /\ Len(JobStatusEvents) = 2

----------------------------------------------------------------------------
(* SpecConn: start and disconnect() against either transport.              *)

InitConn == InitManager(Disconnectors \cup {Starter}, TransportKinds, {<<>>})

NextConn ==
    \/ StartBegin
    \/ StartPort
    \/ HandlerDisconnect
    \/ HandlerReadEnds
    \/ HandlerClose
    \/ Relay
    \/ \E p \in Disconnectors :
           \/ DisconnectCall(p)
           \/ DisconnectReturn(p)

SpecConn == InitConn /\ [][NextConn]_vars

IsTransportStatus(e) == e.t = "TransportStatus"

\* The statuses the event callback has been called with, in order.
ObservedStatuses == SelectSeq(delivered, IsTransportStatus)

\* The transitions of the cycle.
CycleNext(status) ==
    CASE status = "Disconnected" -> "Connecting"
      [] status = "Connecting" -> "Connected"
      [] status = "Connected" -> "Disconnecting"
      [] status = "Disconnecting" -> "Disconnected"

\* C9: the statuses observed through the event callback follow the cycle
\* Disconnected -> Connecting -> Connected -> Disconnecting -> Disconnected:
\* every status observed after another one is the cycle's successor of the
\* one observed before it.
C9_StatusCycle ==
    \A i \in 1 .. Len(ObservedStatuses) - 1 :
        ObservedStatuses[i + 1].status = CycleNext(ObservedStatuses[i].status)

\* The events put on the manager's stream so far, relayed or not.
EventStream == delivered \o event_q

\* C10: a Disconnected status the transport reports because of a disconnect()
\* call is always behind that call's Disconnecting event on the event stream,
\* so the callback never sees it first.
C10_DisconnectingFirst ==
    \A j \in DOMAIN EventStream :
        (/\ IsTransportStatus(EventStream[j])
         /\ EventStream[j].status = "Disconnected"
         /\ EventStream[j].cause \in Disconnectors)
        => \E i \in 1 .. j - 1 :
               EventStream[i] = StatusEvent("Disconnecting", EventStream[j].cause)

\* C10 witness: the callback has seen a call's Disconnecting event and then
\* the Disconnected status that call caused.
C10_Witness ==
    \E p \in Disconnectors : \E i, j \in DOMAIN delivered :
        /\ i < j
        /\ delivered[i] = StatusEvent("Disconnecting", p)
        /\ delivered[j] = StatusEvent("Disconnected", p)
        /\ ret[p] = "Ok"

----------------------------------------------------------------------------
(* SpecConnFair: SpecConn with every spawned task scheduled fairly: the    *)
(* start task, the serial handler and the relay all keep running.          *)

InitConnFair == InitConn

NextConnFair == NextConn

SpecConnFair ==
    /\ InitConnFair
    /\ [][NextConnFair]_vars
    /\ WF_vars(StartBegin)
    /\ WF_vars(StartPort)
    /\ WF_vars(HandlerDisconnect)
    /\ WF_vars(HandlerClose)
    /\ WF_vars(Relay)
    /\ WF_vars(\E p \in Disconnectors : DisconnectReturn(p))

\* The callback has been called with a Disconnected status after it was
\* called with the Disconnecting status of p's disconnect().
DisconnectedAfter(p) ==
    \E i, j \in DOMAIN delivered :
        /\ i < j
        /\ delivered[i] = StatusEvent("Disconnecting", p)
        /\ IsTransportStatus(delivered[j])
        /\ delivered[j].status = "Disconnected"

\* C11: once a disconnect() call has returned Ok, the callback is eventually
\* called with a Disconnected status that follows that call's Disconnecting.
C11_DisconnectedFollows ==
    \A p \in Disconnectors :
        (pc[p] = "done" /\ ret[p] = "Ok") ~> DisconnectedAfter(p)

----------------------------------------------------------------------------
(* SpecRelay: the status poller or a poll_job call on the serial           *)
(* transport, with a device that also sends frames nobody asked for; the   *)
(* relay task is scheduled fairly.                                         *)

InitRelay ==
    \E client \in {StatusPoller, JobPoller} :
        InitManager({client, Starter}, {"serial"},
                    {<<JobsResult(<<JobInfo(U32(42), 3)>>),
                       JobsResult(<<JobInfo(U32(42), 9)>>)>>})

NextRelay ==
    \/ StartBegin
    \/ StartPort
    \/ HandlerWrite
    \/ HandlerWriteFails
    \/ HandlerClose
    \/ Relay
    \/ DeviceReply
    \/ DeviceStray
    \/ PollerReady
    \/ PollerTick
    \/ PollerResponse
    \/ PollJobCall(U32(42))
    \/ PollJobTick
    \/ PollJobResponse
    \/ \E p \in {StatusPoller, JobPoller} :
           \/ WfrInsert(p)
           \/ WfrSend(p)
           \/ WfrWritten(p)
           \/ WfrRecv(p)

SpecRelay == InitRelay /\ [][NextRelay]_vars /\ WF_vars(Relay)

IsPrefix(a, b) == Len(a) <= Len(b) /\ SubSeq(b, 1, Len(a)) = a

\* C12: the relay passes every event put on the event stream to the callback
\* exactly once and in the order of the stream.  Every step only appends to
\* the stream, and changes the callback's log only by appending the oldest
\* event not yet delivered (whatever its kind, and whether or not it resolved
\* a pending request); and the queue is drained again and again, so no event
\* stays undelivered.
C12_RelayInOrder ==
    /\ [][/\ IsPrefix(EventStream, EventStream')
          /\ \/ delivered' = delivered
             \/ /\ event_q # <<>>
                /\ delivered' = Append(delivered, Head(event_q))
                /\ event_q' = Tail(event_q)]_vars
    /\ []<>(event_q = <<>>)

\* C12 witness: the callback has been called with status, job status,
\* packet and error events, with a Packet that resolved the job poller's
\* request and with one that matched nothing, and nothing is left on the
\* stream.
C12_Witness ==
    /\ event_q = <<>>
    /\ {delivered[i].t : i \in DOMAIN delivered}
           = {"TransportStatus", "JobStatus", "Packet", "Error"}
    /\ \E i \in DOMAIN delivered :
           /\ delivered[i].t = "Packet"
           /\ delivered[i].packet \in StrayFrames
    /\ \E i \in DOMAIN delivered :
           /\ delivered[i].t = "Packet"
           /\ HasResult(delivered[i].packet, "jobs")

----------------------------------------------------------------------------
(* SpecWait: a direct wait_for_response call next to the status poller, on *)
(* a device that may or may not answer and a port that may fail.           *)

InitWait == InitManager({"w1", StatusPoller, Starter}, {"serial"}, {<<>>})

NextWait ==
    \/ StartBegin
    \/ StartPort
    \/ HandlerWrite
    \/ HandlerWriteFails
    \/ HandlerReadEnds
    \/ HandlerClose
    \/ Relay
    \/ DeviceReply
    \/ PollerReady
    \/ PollerTick
    \/ PollerResponse
    \/ WaitCall("w1")
    \/ WaitReturn("w1")
    \/ \E p \in {"w1", StatusPoller} :
           \/ WfrInsert(p)
           \/ WfrSend(p)
           \/ WfrWritten(p)
           \/ WfrRecv(p)

SpecWait == InitWait /\ [][NextWait]_vars

\* The callback's log holds a Packet event whose JSON id is this one.
Received(id) == DeliveredAt(id) # {}

\* C13: a wait_for_response call whose frame was written only ever leaves its
\* wait for the response when the relay has received a frame carrying its id;
\* no poll tick, other frame, error or status event ends the wait, and until
\* such a frame arrives the call has returned nothing.
C13_NoTimeout ==
    /\ [][\A p \in WaitCallers :
            (pc[p] = "wfr_recv" /\ pc'[p] # "wfr_recv")
                => (Received(pkt[p].msg_number) /\ rx[p].st = "full")]_vars
    /\ [](\A p \in WaitCallers :
            (pc[p] = "wfr_recv" /\ ~Received(pkt[p].msg_number))
                => (resp[p] = NoResp /\ ret[p] = "none"))

\* C13 witness: the call waits for its response although the handler has
\* stopped, the poller has run all its ticks or ended, other frames and events
\* went through the relay, and nothing is left on the event stream.
C13_Witness ==
    /\ pc["w1"] = "wfr_recv"
    /\ ~Received(pkt["w1"].msg_number)
    /\ transport.handler = "stopped"
    /\ event_q = <<>>
    /\ poll.cycles # <<>>
    /\ \E i \in DOMAIN delivered : delivered[i].t = "Packet"

----------------------------------------------------------------------------
(* SpecExit: two wait_for_response calls and a relay task that may end,    *)
(* every task scheduled fairly.                                            *)

InitExit == InitManager(WaitCallers \cup {Starter}, {"serial"}, {<<>>})

NextExit ==
    \/ StartBegin
    \/ StartPort
    \/ HandlerWrite
    \/ Relay
    \/ RelayExit
    \/ DeviceReply
    \/ \E p \in WaitCallers :
           \/ WaitCall(p)
           \/ WfrInsert(p)
           \/ WfrSend(p)
           \/ WfrWritten(p)
           \/ WfrRecv(p)
           \/ WaitReturn(p)

SpecExit ==
    /\ InitExit
    /\ [][NextExit]_vars
    /\ WF_vars(StartBegin)
    /\ WF_vars(StartPort)
    /\ WF_vars(HandlerWrite)
    /\ WF_vars(Relay)
    /\ WF_vars(DeviceReply)
    /\ \A p \in WaitCallers :
           WF_vars(WfrInsert(p) \/ WfrSend(p) \/ WfrWritten(p) \/ WfrRecv(p)
                       \/ WaitReturn(p))

\* C14: a wait_for_response call that is waiting for its response when the
\* relay task has ended does not stay pending: it returns, with the
\* cancelled-channel error unless its frame had already been relayed.
C14_WaitEndsWithRelay ==
    \A p \in WaitCallers :
        (ready.relay = "exited" /\ pc[p] = "wfr_recv")
            ~> (pc[p] = "done" /\ (ret[p] = "Err" \/ Received(pkt[p].msg_number)))

----------------------------------------------------------------------------
(* print_canvas (app.rs:415): the print job task.  Its three calls run as  *)
(* "w1" (the submit request), "sd1" (the transfer) and the job poller.     *)

\* The device accepts a print-job request and assigns it a job id.
JobResult(job_id) == [shape |-> "job", job_id |-> job_id]

DeviceAcceptJob ==
    /\ transport.handler = "running"
    /\ \E request \in port_out, job_id \in JobIds :
         /\ request.data.obj.method = "print-job"
         /\ event_q' = Enqueue(
               PacketEvent(JsonResponse([id |-> JsonId(request),
                                         result |-> JobResult(job_id)])))
         /\ port_out' = port_out \ {request}
    /\ UNCHANGED <<codecVars, MESSAGE_ID, returned, sending, pending, delivered, ready, tlock,
                   transport, action_q, wire, wdone, pc, pkt, rx, resp, ret, sd,
                   progress, poll, script, overlap>>

\* app.rs:417-495: a fresh id, the print-job request, wait_for_response.
PrintSubmit ==
    /\ pc["w1"] = "idle"
    /\ FetchAdd("w1")
    /\ pkt' = [pkt EXCEPT !["w1"] =
                 JsonRequest(next_message_id,
                             [id |-> next_message_id, method |-> "print-job"])]
    /\ pc' = [pc EXCEPT !["w1"] = "wfr_insert"]
    /\ UNCHANGED <<codecVars, sending, pending, event_q, delivered, ready, tlock, transport,
                   action_q, port_out, wire, wdone, rx, resp, ret, sd, progress, poll,
                   script, overlap>>

\* app.rs:495-508: both unwraps pass: the wait returned a frame and it
\* decodes as AvocadoResult<JobResult>.
SubmitOk ==
    /\ resp["w1"].r = "Ok"
    /\ HasResult(resp["w1"].packet, "job")

\* app.rs:495-508: one of the unwraps panics; the task ends there.
PrintSubmitPanics ==
    /\ pc["w1"] = "wfr_done"
    /\ ~SubmitOk
    /\ pc' = [pc EXCEPT !["w1"] = "panicked"]
    /\ ret' = [ret EXCEPT !["w1"] = "Panic"]
    /\ UNCHANGED <<codecVars, MESSAGE_ID, returned, sending, pending, event_q, delivered, ready,
                   tlock, transport, action_q, port_out, wire, wdone, pkt, rx, resp,
                   sd, progress, poll, script, overlap>>

\* app.rs:504-512: the job id of the response, then send_data with it.
PrintTransfer ==
    /\ pc["w1"] = "wfr_done"
    /\ SubmitOk
    /\ \E len \in SendLens :
           SendDataStart("sd1", resp["w1"].packet.data.obj.result.job_id, Payload(len))

\* Mutant of TransferOk: the result of send_data is not looked at.
TransferReturned == ret["sd1"] # "none"

\* app.rs:516-517: `.await.unwrap()` on send_data passes.
TransferOk == ret["sd1"] = "Ok"

\* app.rs:519: poll_job with the same job id.
PrintPoll ==
    /\ pc["sd1"] = "done"
    /\ TransferOk
    /\ PollJobCall(sd["sd1"].job_id)


InitPrint ==
    InitManager({"w1", "sd1", JobPoller, Starter}, {"serial"},
                {<<JobsResult(<<JobInfo(U32(42), 3)>>),
                   JobsResult(<<JobInfo(U32(42), 9)>>)>>,
                 <<PlainResult>>})

NextPrint ==
    \/ StartBegin
    \/ StartPort
    \/ HandlerWrite
    \/ HandlerWriteFails
    \/ HandlerClose
    \/ Relay
    \/ DeviceReply
    \/ DeviceAcceptJob
    \/ PrintSubmit
    \/ PrintSubmitPanics
    \/ PrintTransfer
    \/ SendDataSend("sd1")
    \/ SendDataWritten("sd1")
    \/ SendDataReturn("sd1")
    \/ PrintPoll
    \/ PollJobTick
    \/ PollJobResponse
    \/ \E p \in {"w1", JobPoller} :
           \/ WfrInsert(p)
           \/ WfrSend(p)
           \/ WfrWritten(p)
           \/ WfrRecv(p)

SpecPrint == InitPrint /\ [][NextPrint]_vars

\* send_data / poll_job has been invoked by the print job.
TransferStarted == pc["sd1"] # "idle"
PollStarted == pc[JobPoller] # "idle"

\* C15: the print job runs submit, transfer and poll strictly in order.
\* send_data has only been invoked once the response carrying the submit
\* request's id was received, and with the job id of that response; poll_job
\* has only been invoked once send_data returned Ok, and with the same job id;
\* and after a failed phase no later phase has been started.
C15_PhasesInOrder ==
    /\ TransferStarted =>
          /\ Received(pkt["w1"].msg_number)
          /\ SubmitOk
          /\ JsonId(resp["w1"].packet) = pkt["w1"].msg_number
          /\ sd["sd1"].job_id = resp["w1"].packet.data.obj.result.job_id
    /\ PollStarted =>
          /\ ret["sd1"] = "Ok"
          /\ poll.job_id = sd["sd1"].job_id
    /\ pc["w1"] = "panicked" => (~TransferStarted /\ ~PollStarted)
    /\ ret["sd1"] \in {"ErrSend", "ErrCanceled", "ErrAlreadySending"} => ~PollStarted
    /\ \A i \in DOMAIN wire :
          /\ wire[i].by = "sd1" => \E j \in 1 .. i - 1 : wire[j].by = "w1"
          /\ wire[i].by = JobPoller => \E j \in 1 .. i - 1 : wire[j].by = "sd1"
                                          \/ sd["sd1"].data = <<>>

\* C15 witness: a job went through all three phases: the submit was answered,
\* a one-chunk transfer returned Ok and polling ended on a final job state.
C15_Witness ==
    /\ pc[JobPoller] = "done"
    /\ poll.exit = "terminal"
    /\ ret["sd1"] = "Ok"
    /\ Len(progress["sd1"]) = 1
    /\ poll.job_id = U32(65536 + 258)

----------------------------------------------------------------------------
(* SpecPollExit: poll_job with every way its loop can end: the device      *)
(* answers from a script, the port may fail and the relay task may end.    *)

InitPollExit ==
    InitManager({JobPoller, Starter}, {"serial"},
                {<<JobsResult(<<JobInfo(U32(42), 3)>>),
                   JobsResult(<<JobInfo(U32(42), 9)>>)>>,
                 <<JobsResult(<<>>), JobsResult(<<JobInfo(U32(42), 8)>>)>>,
                 <<JobsResult(<<JobInfo(U32(42), 0)>>)>>,
                 <<PlainResult>>})

NextPollExit ==
    \/ StartBegin
    \/ StartPort
    \/ HandlerWrite
    \/ HandlerWriteFails
    \/ HandlerClose
    \/ Relay
    \/ RelayExit
    \/ DeviceReply
    \/ \E job_id \in JobIds : PollJobCall(job_id)
    \/ PollJobTick
    \/ PollJobResponse
    \/ WfrInsert(JobPoller)
    \/ WfrSend(JobPoller)
    \/ WfrWritten(JobPoller)
    \/ WfrRecv(JobPoller)

SpecPollExit == InitPollExit /\ [][NextPollExit]_vars

----------------------------------------------------------------------------
(* The packet codec of src/src/protocol.rs. A frame is an AvocadoPacket    *)
(* whose data is a sequence of bytes; u16 values are naturals below 65536  *)
(* and u32 values are limb pairs.                                          *)

\* const WRAPPER: u8 = 0x7E
WRAPPER == 126

\* Option<T>
Some(v) == <<v>>
None == <<>>

\* ProtocolError::Reader(err) with err.kind() == UnexpectedEof
UnexpectedEof == [t |-> "Reader", kind |-> "UnexpectedEof"]

\* ProtocolError::InvalidData(name)
InvalidData(name) == [t |-> "InvalidData", name |-> name]

\* The discriminants of the PrimitiveEnum_u8 enums.
Primitives ==
    [ContentType |-> [Message |-> 1, Data |-> 2],
     InteractionType |-> [Request |-> 6, Response |-> 7],
     EncodingType |-> [Hexadecimal |-> 2, Json |-> 3],
     EncryptionMode |-> [None |-> 0, RC4 |-> 2]]

\* PrimitiveEnum::to_primitive
to_primitive(enum, variant) == Primitives[enum][variant]

\* Mutant of from_primitive: a byte that is no discriminant is taken for
\* some variant.
from_primitiveLenient(enum, byte) ==
    LET variants == {v \in DOMAIN Primitives[enum] : Primitives[enum][v] = byte}
    IN  Some(CHOOSE v \in (IF variants = {} THEN DOMAIN Primitives[enum] ELSE variants) : TRUE)

\* PrimitiveEnum::from_primitive: None for a byte that is no discriminant.
from_primitive(enum, byte) ==
    LET variants == {v \in DOMAIN Primitives[enum] : Primitives[enum][v] = byte}
    IN  IF variants = {} THEN None ELSE Some(CHOOSE v \in variants : TRUE)

\* The bits of a u16, least significant first, and back.
Bits16(n) == [i \in 0 .. 15 |-> (n \div (2 ^ i)) % 2]
FromBits16(b) ==
    LET RECURSIVE upTo(_)
        upTo(i) == IF i < 0 THEN 0 ELSE b[i] * (2 ^ i) + upTo(i - 1)
    IN  upTo(15)

\* u16 | u16, u16 & u16, u16 << n, u16 >> n
BitOr(a, b) ==
    LET x == Bits16(a)
        y == Bits16(b)
    IN  FromBits16([i \in 0 .. 15 |-> IF x[i] + y[i] > 0 THEN 1 ELSE 0])
BitAnd(a, b) ==
    LET x == Bits16(a)
        y == Bits16(b)
    IN  FromBits16([i \in 0 .. 15 |-> x[i] * y[i]])
Shl(a, n) == (a * (2 ^ n)) % LimbMod
Shr(a, n) == a \div (2 ^ n)

\* WriteBytesExt::write_u16::<LittleEndian>, ReadBytesExt::read_u16::<LittleEndian>
WriteU16(n) == <<n % 256, n \div 256>>
ReadU16(b) == b[1] + 256 * b[2]

\* ReadBytesExt::read_u32::<LittleEndian>
ReadU32(b) == <<b[3] + 256 * b[4], b[1] + 256 * b[2]>>

\* AvocadoFlags::unpack with the documented layout instead: is_subpackage in
\* bit 10 and the encryption mode in bits 11..13.
unpackDocumentedLayout(flags) ==
    LET is_subpackage == Shr(BitAnd(flags, 1024), 10) > 0
        encryption_mode == from_primitive("EncryptionMode", Shr(BitAnd(flags, 14336), 11))
        length == BitAnd(flags, 1023)
    IN  IF encryption_mode = None THEN None
        ELSE Some([length |-> length, is_subpackage |-> is_subpackage,
                   encryption_mode |-> encryption_mode[1]])

\* AvocadoFlags::unpack: the masks are 0x2000, 0x1C00 and 0x03FF.
unpack(flags) ==
    LET is_subpackage == Shr(BitAnd(flags, 8192), 13) > 0
        encryption_mode == from_primitive("EncryptionMode", Shr(BitAnd(flags, 7168), 10))
        length == BitAnd(flags, 1023)
    IN  IF encryption_mode = None THEN None
        ELSE Some([length |-> length, is_subpackage |-> is_subpackage,
                   encryption_mode |-> encryption_mode[1]])

\* Mutant of EncodeFlags: a length beyond ten bits is written as 1023.
EncodeFlagsSaturating(frame) ==
    LET flags0 == 0
        flags1 == IF frame.is_subpackage THEN BitOr(flags0, Shl(1, 13)) ELSE flags0
        flags2 == BitOr(flags1, Shl(to_primitive("EncryptionMode", frame.encryption_mode), 10))
    IN  BitOr(flags2, Min(Len(frame.data), 1023))

\* The flags word encode builds: flags |= 1 << 13 for a subpackage, then the
\* encryption mode << 10, then data.len() as u16 & 0x03FF.
EncodeFlags(frame) ==
    LET flags0 == 0
        flags1 == IF frame.is_subpackage THEN BitOr(flags0, Shl(1, 13)) ELSE flags0
        flags2 == BitOr(flags1, Shl(to_primitive("EncryptionMode", frame.encryption_mode), 10))
    IN  BitOr(flags2, BitAnd(Len(frame.data) % LimbMod, 1023))

\* Mutant of WrappingAddU8: the sum saturates at 255.
SaturatingAddU8(a, b) == Min(a + b, 255)

\* u8::wrapping_add
WrappingAddU8(a, b) == (a + b) % 256

\* AvocadoPacket::checksum: data.iter().fold(0u8, |sum, byte| sum.wrapping_add(*byte))
\* The fold runs over data[lo .. hi] from the left, the sum threaded through
\* the two halves of the range.
checksum(data) ==
    LET fold[sum \in 0 .. 255, lo \in 1 .. Len(data) + 1, hi \in 0 .. Len(data)] ==
            IF lo > hi THEN sum
            ELSE IF lo = hi THEN WrappingAddU8(sum, data[lo])
            ELSE fold[fold[sum, lo, (lo + hi) \div 2], (lo + hi) \div 2 + 1, hi]
    IN  fold[0, 1, Len(data)]

\* AvocadoPacket::encode
encode(frame) ==
    LET buf == <<WRAPPER, 100, 0,
                 to_primitive("ContentType", frame.content_type),
                 to_primitive("InteractionType", frame.interaction_type),
                 to_primitive("EncodingType", frame.encoding_type)>>
               \o ToLeBytes(frame.terminal_id)
               \o ToLeBytes(frame.msg_number)
               \o WriteU16(frame.msg_package_total)
               \o WriteU16(frame.msg_package_num)
               \o WriteU16(EncodeFlags(frame))
               \o frame.data
    IN  buf \o <<checksum(Tail(buf))>> \o <<WRAPPER>>

\* Mutant of ChecksumUnused: the byte read is compared with the checksum of
\* the bytes after the first delimiter.
ChecksumVerified(read, body) == read = checksum(body)

\* `let _checksum = reader.read_u8()...?`: the checksum byte is read and bound
\* to an unused name; read_one compares it with nothing.
ChecksumUnused(read, body) == TRUE

\* AvocadoPacket::read_one on a Cursor over bytes at position pos: the result
\* and the position afterwards. Every read of the reader is a read_exact, which
\* fails with UnexpectedEof when fewer bytes are left than it asks for; the
\* position after a failed read is not used by any caller.
read_one(bytes, pos) ==
    LET left(n) == pos + n <= Len(bytes)       \* the first n bytes can be read
        at(i) == bytes[pos + i]                \* the i-th byte read, from 1
        eof == [result |-> Err(UnexpectedEof), pos |-> Len(bytes)]
        invalid(name, n) == [result |-> Err(InvalidData(name)), pos |-> pos + n]
        content_type == from_primitive("ContentType", at(4))
        interaction_type == from_primitive("InteractionType", at(5))
        encoding_type == from_primitive("EncodingType", at(6))
        flags == unpack(ReadU16(<<at(19), at(20)>>))
        length == flags[1].length
    IN  IF ~left(1) THEN eof
        ELSE IF at(1) # WRAPPER THEN invalid("prefix", 1)
        ELSE IF ~left(4) THEN eof              \* version, reserved, content_type
        ELSE IF content_type = None THEN invalid("content_type", 4)
        ELSE IF ~left(5) THEN eof
        ELSE IF interaction_type = None THEN invalid("interaction_type", 5)
        ELSE IF ~left(6) THEN eof
        ELSE IF encoding_type = None THEN invalid("encoding_type", 6)
        ELSE IF ~left(20) THEN eof             \* the ids, the counters, the flags
        ELSE IF flags = None THEN invalid("flags", 20)
        ELSE IF ~left(20 + length + 2) THEN eof    \* data, checksum, suffix
        ELSE IF ~ChecksumUnused(at(20 + length + 1),
                                SubSeq(bytes, pos + 2, pos + 20 + length))
             THEN invalid("checksum", 20 + length + 1)
        ELSE IF at(20 + length + 2) # WRAPPER THEN invalid("suffix", 20 + length + 2)
        ELSE [result |->
                 Ok([version |-> at(2),
                     content_type |-> content_type[1],
                     interaction_type |-> interaction_type[1],
                     encoding_type |-> encoding_type[1],
                     encryption_mode |-> flags[1].encryption_mode,
                     terminal_id |-> ReadU32(<<at(7), at(8), at(9), at(10)>>),
                     msg_number |-> ReadU32(<<at(11), at(12), at(13), at(14)>>),
                     msg_package_total |-> ReadU16(<<at(15), at(16)>>),
                     msg_package_num |-> ReadU16(<<at(17), at(18)>>),
                     is_subpackage |-> flags[1].is_subpackage,
                     data |-> SubSeq(bytes, pos + 21, pos + 20 + length)]),
              pos |-> pos + 20 + length + 2]

\* Mutant of next: every error of read_one becomes an error item.
nextWithoutEofArm(bytes, pos) ==
    LET r == read_one(bytes, pos)
    IN  [item |-> Some(r.result), pos |-> r.pos]

\* Iterator::next of AvocadoPacketReader: the item and the position afterwards.
next(bytes, pos) ==
    LET r == read_one(bytes, pos)
    IN  [item |-> IF r.result.r = "Ok" THEN Some(r.result)
                  ELSE IF r.result.err.t = "Reader" THEN None
                  ELSE Some(r.result),
         pos |-> r.pos]

----------------------------------------------------------------------------
(* SpecCodec: frames are encoded into a byte source, the source may stop   *)
(* short, and an AvocadoPacketReader reads it to its end.                  *)

MaxFrames == 2

\* The field values the frames are drawn from.
PayloadLens == {0, 1, 255, 1023}
IdProfiles ==
    {[terminal_id |-> U32(628), msg_number |-> U32(628), total |-> 1, num |-> 1],
     [terminal_id |-> <<258, 772>>, msg_number |-> <<0, 0>>, total |-> 0, num |-> 65535],
     [terminal_id |-> <<65535, 65535>>, msg_number |-> <<32768, 126>>,
      total |-> 65535, num |-> 258]}

\* The frame of tests::test_encode and the bytes the test expects for it
\* (const JSON_REQUEST_DATA has the same bytes).
TestPacketData ==
    <<123, 10, 32, 32, 34, 105, 100, 34, 32, 58, 32, 54, 50, 56, 44, 10, 32,
      32, 34, 109, 101, 116, 104, 111, 100, 34, 32, 58, 32, 34, 103, 101,
      116, 45, 112, 114, 111, 112, 34, 44, 10, 32, 32, 34, 112, 97, 114, 97,
      109, 115, 34, 32, 58, 32, 91, 10, 32, 32, 32, 32, 34, 102, 105, 114,
      109, 119, 97, 114, 101, 45, 114, 101, 118, 105, 115, 105, 111, 110, 34,
      44, 10, 32, 32, 32, 32, 34, 98, 116, 45, 112, 104, 111, 110, 101, 45,
      109, 97, 99, 34, 10, 32, 32, 93, 10, 125>>

TestPacket ==
    [version |-> 100, content_type |-> "Message", interaction_type |-> "Request",
     encoding_type |-> "Json", encryption_mode |-> "None",
     terminal_id |-> U32(628), msg_number |-> U32(628),
     msg_package_total |-> 1, msg_package_num |-> 1, is_subpackage |-> FALSE,
     data |-> TestPacketData]

JSON_REQUEST_DATA ==
    <<126, 100, 0, 1, 6, 3, 116, 2, 0, 0, 116, 2, 0, 0, 1, 0, 1, 0, 105, 0,
      123, 10, 32, 32, 34, 105, 100, 34, 32, 58, 32, 54, 50, 56, 44, 10, 32,
      32, 34, 109, 101, 116, 104, 111, 100, 34, 32, 58, 32, 34, 103, 101,
      116, 45, 112, 114, 111, 112, 34, 44, 10, 32, 32, 34, 112, 97, 114, 97,
      109, 115, 34, 32, 58, 32, 91, 10, 32, 32, 32, 32, 34, 102, 105, 114,
      109, 119, 97, 114, 101, 45, 114, 101, 118, 105, 115, 105, 111, 110, 34,
      44, 10, 32, 32, 32, 32, 34, 98, 116, 45, 112, 104, 111, 110, 101, 45,
      109, 97, 99, 34, 10, 32, 32, 93, 10, 125, 89, 126>>

\* The frames at the head of the source: the test's frame, the frames of
\* version 100 over all the field values, and one frame whose version field
\* is not the version encode writes.
Version100Frames ==
    {[version |-> 100, content_type |-> c, interaction_type |-> i, encoding_type |-> e,
      encryption_mode |-> m, terminal_id |-> id.terminal_id, msg_number |-> id.msg_number,
      msg_package_total |-> id.total, msg_package_num |-> id.num,
      is_subpackage |-> s, data |-> Payload(n)] :
        c \in DOMAIN Primitives.ContentType,
        i \in DOMAIN Primitives.InteractionType, e \in DOMAIN Primitives.EncodingType,
        m \in DOMAIN Primitives.EncryptionMode, id \in IdProfiles,
        s \in BOOLEAN, n \in PayloadLens}

Frames == Version100Frames \cup {TestPacket, [TestPacket EXCEPT !.version = 99]}

\* The frames that follow the first one in a source.
LaterFrames ==
    {f \in Frames : /\ f.version = 100
                    /\ f.terminal_id = U32(628)
                    /\ f.content_type = "Message" /\ f.interaction_type = "Response"
                    /\ f.encoding_type = "Json"
                    /\ <<f.is_subpackage, f.encryption_mode, Len(f.data)>>
                           \in {<<FALSE, "None", 0>>, <<TRUE, "RC4", 1>>}}

\* The bytes of a source made of the encodings of frames, in order.
EncodeAll(frames) == Concat([i \in 1 .. Len(frames) |-> encode(frames[i])])

\* The source ends where the last encoded frame ends.
AtFrameBoundary == cursor.bytes = EncodeAll(encoded)

\* How many bytes short of the boundary a source can stop.
CutLens == {1, 21}

\* One more frame is encoded into the source (web_serial.rs:222; the capture
\* files opened at views/mod.rs:190-203).
Encode(frame) ==
    /\ Len(encoded) < MaxFrames
    /\ items = <<>>
    /\ AtFrameBoundary
    /\ encoded' = Append(encoded, frame)
    /\ cursor' = [cursor EXCEPT !.bytes = @ \o encode(frame)]
    /\ UNCHANGED <<items, managerVars>>

\* The source stops n bytes before the end of its last frame.
SourceEnds(n) ==
    /\ encoded # <<>>
    /\ items = <<>>
    /\ AtFrameBoundary
    /\ cursor' = [cursor EXCEPT !.bytes = SubSeq(@, 1, Len(@) - n)]
    /\ UNCHANGED <<encoded, items, managerVars>>

\* The iteration has ended: the reader returned None.
Ended == items # <<>> /\ items[Len(items)] = None

\* The reader returned an error item: collect::<Result<Vec<_>, _>>() stops at
\* it (views/mod.rs:202-203), as read_task does (web_serial.rs:294).
Failed == items # <<>> /\ items[Len(items)] # None /\ items[Len(items)][1].r = "Err"

\* AvocadoPacketReader::next, called until it returns None or an error item.
ReaderNext ==
    /\ ~Ended
    /\ ~Failed
    /\ LET n == next(cursor.bytes, cursor.pos)
       IN  /\ items' = Append(items, n.item)
           /\ cursor' = [cursor EXCEPT !.pos = n.pos]
    /\ UNCHANGED <<encoded, managerVars>>

InitCodec == InitManager({}, {"mock"}, {<<>>})

NextCodec ==
    \/ \E frame \in IF encoded = <<>> THEN Frames ELSE LaterFrames : Encode(frame)
    \/ \E n \in CutLens : SourceEnds(n)
    \/ ReaderNext

SpecCodec == InitCodec /\ [][NextCodec]_vars

\* The frames the reader has returned Ok for so far.
FramesRead == Min(Len(items), Len(encoded))

\* C17: for every valid frame (version 100, payload of 0 to 1023 bytes, any
\* enum variants, ids, counters, is_subpackage and encryption mode), read_one
\* on the encoding returns a frame equal to the original in every field, and
\* it consumes exactly the encoded bytes: after i frames the cursor stands at
\* the end of the i-th encoding.
C17_RoundTrip ==
    AtFrameBoundary =>
        /\ \A i \in 1 .. FramesRead :
               (encoded[i].version = 100 /\ Len(encoded[i].data) <= 1023)
                   => items[i] = Some(Ok(encoded[i]))
        /\ cursor.pos = Len(EncodeAll(SubSeq(encoded, 1, FramesRead)))

\* C17 witness: a subpackage frame with RC4, a 1023-byte payload and ids that
\* fill all their bytes was read back, and the 1045 bytes of its encoding were
\* consumed.
C17_Witness ==
    /\ Len(encoded) = 1
    /\ Len(items) = 1
    /\ items[1] = Some(Ok(encoded[1]))
    /\ encoded[1].is_subpackage
    /\ encoded[1].encryption_mode = "RC4"
    /\ encoded[1].terminal_id = <<65535, 65535>>
    /\ Len(encoded[1].data) = 1023
    /\ cursor.pos = 1045

\* The sum of bytes[lo .. hi] as a natural number.
SumOf(bytes, lo, hi) ==
    LET part[l \in lo .. hi + 1, h \in lo - 1 .. hi] ==
            IF l > h THEN 0
            ELSE IF l = h THEN bytes[l]
            ELSE part[l, (l + h) \div 2] + part[(l + h) \div 2 + 1, h]
    IN  part[lo, hi]

\* The payload lengths of the frames encoded so far.
PayloadLen(i) == Len(encoded[i].data)

\* C18: for every frame, the output of encode has exactly 22 + payload-length
\* bytes, its first and last byte are the delimiter 0x7E, and its second-to-last
\* byte is the sum modulo 256 of the bytes from position 1 (the byte after the
\* leading delimiter) through the last payload byte; a source of such outputs
\* is as long as their lengths together.
C18_ChecksumAndLength ==
    /\ \A i \in 1 .. Len(encoded) :
           LET out == encode(encoded[i])
               n == PayloadLen(i)
           IN  /\ Len(out) = 22 + n
               /\ out[1] = 126
               /\ out[22 + n] = 126
               /\ out[21 + n] = SumOf(out, 2, 20 + n) % 256
    /\ AtFrameBoundary =>
           Len(cursor.bytes) = SumOf([i \in 1 .. Len(encoded) |-> 22 + PayloadLen(i)],
                                     1, Len(encoded))

\* C18 witness: the frame of tests::test_encode was encoded into the 127 bytes
\* the test expects, whose checksum byte is 0x59.
C18_Witness ==
    /\ encoded = <<TestPacket>>
    /\ cursor.bytes = JSON_REQUEST_DATA
    /\ Len(cursor.bytes) = 22 + 105
    /\ cursor.bytes[126] = 89
    /\ SumOf(cursor.bytes, 2, 125) % 256 = 89

\* The flags word in the encoding of the i-th frame: the little-endian u16 at
\* byte offsets 18 and 19.
FlagsWritten(i) ==
    LET out == encode(encoded[i])
    IN  ReadU16(<<out[19], out[20]>>)

\* The flags word of the documented layout: the payload length in bits 0..9,
\* is_subpackage in bit 10 and the encryption mode's number in bits 11..13.
DocumentedFlags(length, is_subpackage, encryption_mode) ==
    length + 1024 * (IF is_subpackage THEN 1 ELSE 0)
           + 2048 * to_primitive("EncryptionMode", encryption_mode)

\* C19: for every combination of is_subpackage, encryption mode None or RC4
\* and payload length 0, 1, 255 or 1023, the flags word encode writes has the
\* payload length in bits 0..9, is_subpackage in bit 10 and the encryption
\* mode's number (None = 0, RC4 = 2) in bits 11..13, all other bits zero, and
\* AvocadoFlags::unpack reads that layout back.
C19_FlagsLayout ==
    \A i \in 1 .. Len(encoded) :
        LET f == encoded[i]
            documented == DocumentedFlags(Len(f.data), f.is_subpackage, f.encryption_mode)
        IN  Len(f.data) \in {0, 1, 255, 1023} =>
                /\ FlagsWritten(i) = documented
                /\ unpack(documented) = Some([length |-> Len(f.data),
                                              is_subpackage |-> f.is_subpackage,
                                              encryption_mode |-> f.encryption_mode])

\* The frame read_one returns for the encoding of frame: the version it reads
\* is the one encode wrote.
Decoded(frame) == [frame EXCEPT !.version = 100]

\* C20: a reader over a source that holds k complete valid frames and ends
\* exactly at the frame boundary yields the k frames as Ok items, in order,
\* then ends the iteration with None as its item k + 1, and yields no error
\* item.
C20_CleanEnd ==
    AtFrameBoundary =>
        /\ Len(items) <= Len(encoded) + 1
        /\ \A i \in 1 .. Len(items) :
               IF i <= Len(encoded) THEN items[i] = Some(Ok(Decoded(encoded[i])))
               ELSE items[i] = None

\* C20 witness: a source of two frames, the first with a 1023-byte payload,
\* was read to its end: two Ok items, then None, with every byte consumed.
C20_Witness ==
    /\ AtFrameBoundary
    /\ Len(encoded) = 2
    /\ Len(encoded[1].data) = 1023
    /\ items = <<Some(Ok(encoded[1])), Some(Ok(encoded[2])), None>>
    /\ cursor.pos = Len(cursor.bytes)

----------------------------------------------------------------------------
(* SpecTamper: one frame is encoded, one byte of its encoding is replaced  *)
(* (a capture file edited by hand, noise on the serial line), and the      *)
(* reader reads the result.                                                *)

\* The frames whose encodings are tampered with.
TamperFrames == {f \in Frames : f.terminal_id = U32(628)}

\* Where the fields of a frame with an n-byte payload sit in its encoding,
\* counted from 1; flags is the high byte of the flags word.
FieldOffsets(n) ==
    [prefix |-> 1, content_type |-> 4, interaction_type |-> 5, encoding_type |-> 6,
     flags |-> 20, checksum |-> 21 + n, suffix |-> 22 + n]

Fields == DOMAIN FieldOffsets(0)

\* The bytes written over a field. Over the flags byte: the same length bits
\* (0 and 1) and is_subpackage bit (5), the mode bits (2 to 4) set to a number
\* that is no EncryptionMode. Over the checksum of a frame with a payload of 1
\* or 105 bytes: every other byte. Over the
\* others: a byte that is no delimiter and no discriminant.
TamperBytes(field, old, n) ==
    IF field = "flags"
    THEN {(old % 4) + 4 * m + 32 * (old \div 32) : m \in {1, 3, 7}}
    ELSE IF field = "checksum" /\ n \in {1, 105} THEN (0 .. 255) \ {old}
    ELSE {0, 125, 255} \ {old}

\* One byte of the frame's encoding is replaced.
Tamper ==
    /\ Len(encoded) = 1
    /\ items = <<>>
    /\ AtFrameBoundary
    /\ \E field \in Fields :
           LET at == FieldOffsets(PayloadLen(1))[field]
           IN  \E byte \in TamperBytes(field, cursor.bytes[at], PayloadLen(1)) :
                   cursor' = [cursor EXCEPT !.bytes[at] = byte]
    /\ UNCHANGED <<encoded, items, managerVars>>

InitTamper == InitCodec

NextTamper ==
    \/ \E frame \in TamperFrames : encoded = <<>> /\ Encode(frame)
    \/ Tamper
    \/ ReaderNext

SpecTamper == InitTamper /\ [][NextTamper]_vars

\* The offsets at which the source differs from the encoding of its frames.
TamperedAt ==
    LET original == EncodeAll(encoded)
    IN  {i \in 1 .. Len(original) : cursor.bytes[i] # original[i]}

\* C21: read_one on an otherwise valid frame with exactly one structural
\* violation returns InvalidData naming that field, and no frame: "prefix" for
\* a wrong first delimiter, "suffix" for a wrong last one, "content_type",
\* "interaction_type" or "encoding_type" for a byte that is no discriminant of
\* that enum, and "flags" for encryption bits that are no known mode.
C21_InvalidDataNamesField ==
    (Len(encoded) = 1 /\ items # <<>>) =>
        \A field \in Fields \ {"checksum"} :
            TamperedAt = {FieldOffsets(PayloadLen(1))[field]} =>
                items = <<Some([r |-> "Err", err |-> [t |-> "InvalidData", name |-> field]])>>

\* C21 witness: the last delimiter of a frame with a 1023-byte payload was
\* replaced, and read_one returned InvalidData("suffix") after reading all
\* 1045 bytes.
C21_Witness ==
    /\ Len(encoded) = 1
    /\ PayloadLen(1) = 1023
    /\ TamperedAt = {1045}
    /\ items = <<Some(Err(InvalidData("suffix")))>>
    /\ cursor.pos = 1045

----------------------------------------------------------------------------
(* Claims about the order of the steps of wait_for_response (SpecCorr).    *)

\* The send_packet invocations made for task p, accepted or not.
HandedBy(p) == {i \in DOMAIN wire : wire[i].by = p}

\* The call of p has handed its frame to the transport and has not returned.
WriteBegun(p) == HandedBy(p) # {} /\ pc[p] \in {"wfr_written", "wfr_recv"}

\* The relay takes a Packet event with this JSON id off the stream.
RelaysId(id) ==
    /\ event_q # <<>>
    /\ Head(event_q).t = "Packet"
    /\ HasJsonId(Head(event_q).packet)
    /\ JsonId(Head(event_q).packet) = id
    /\ delivered' = Append(delivered, Head(event_q))

----------------------------------------------------------------------------
(* SpecPending: one wait_for_response call whose future may be dropped,    *)
(* a disconnect call, a port that may fail, and a device that answers and  *)
(* also sends frames of its own.                                           *)

\* The future of wait_for_response is dropped at one of its awaits: the
\* response receiver, the write-completion receiver and the MutexGuard go
\* with it; nothing in the function takes the entry out of the pending map.
WfrDropped(p) ==
    /\ pc[p] \in {"wfr_send", "wfr_written", "wfr_recv"}
    /\ rx' = [rx EXCEPT ![p] = NoRx]
    /\ wdone' = [wdone EXCEPT ![p] = "none"]
    /\ tlock' = Unlock(p)
    /\ pc' = [pc EXCEPT ![p] = "dropped"]
    /\ UNCHANGED <<codecVars, MESSAGE_ID, returned, sending, pending, event_q, delivered,
                   ready, transport, action_q, port_out, wire, pkt, resp, ret, sd,
                   progress, poll, script, overlap>>

InitPending == InitManager({"w1", "dc1", Starter}, {"serial"}, {<<>>})

NextPending ==
    \/ StartBegin
    \/ StartPort
    \/ HandlerWrite
    \/ HandlerWriteFails
    \/ HandlerDisconnect
    \/ HandlerClose
    \/ Relay
    \/ DeviceReply
    \/ DeviceStray
    \/ WaitCall("w1")
    \/ WfrInsert("w1")
    \/ WfrSend("w1")
    \/ WfrWritten("w1")
    \/ WfrRecv("w1")
    \/ WfrDropped("w1")
    \/ WaitReturn("w1")
    \/ DisconnectCall("dc1")
    \/ DisconnectReturn("dc1")

SpecPending == InitPending /\ [][NextPending]_vars

\* Task p has registered its entry (it is past the insert of its call).
Registered(p) ==
    pc[p] \in {"wfr_send", "wfr_written", "wfr_recv", "wfr_done", "done", "dropped"}

\* The relay takes a Packet event off the stream.
RelaysPacket ==
    /\ event_q # <<>>
    /\ Head(event_q).t = "Packet"
    /\ delivered' = Append(delivered, Head(event_q))

\* C23: a pending-table entry exists exactly from its registration by
\* wait_for_response until the first frame whose JSON id equals its key is
\* relayed: that frame removes the entry and resolves it once, a later frame
\* with the same id (or any frame that matches no entry) resolves nothing, and
\* no other step removes an entry (not a failed send, not a dropped caller, not
\* disconnect), so an entry no frame has answered stays in the table.
C23_EntryLifetime ==
    /\ [][/\ \A k \in DOMAIN pending \ DOMAIN pending' : RelaysId(k)
          /\ \A k \in DOMAIN pending' \ DOMAIN pending :
                 \E p \in Waiters : /\ pc[p] = "wfr_insert" /\ pc'[p] = "wfr_send"
                                    /\ pkt[p].msg_number = k
          /\ \A k \in DOMAIN pending :
                 /\ RelaysId(k) =>
                        /\ k \notin DOMAIN pending'
                        /\ \A q \in Tasks \ {pending[k]} : rx'[q] = rx[q]
                 /\ k \in DOMAIN pending' => pending'[k] = pending[k]
          /\ (RelaysPacket /\ ~(\E k \in DOMAIN pending : RelaysId(k)))
                 => (pending' = pending /\ rx' = rx)]_vars
    /\ [](\A p \in Waiters :
            (Registered(p) /\ ~Received(pkt[p].msg_number))
                => (/\ pkt[p].msg_number \in DOMAIN pending
                    /\ pending[pkt[p].msg_number] = p))

\* C23 witness: the call's send failed and the call returned its error, the
\* manager was disconnected and the handler has stopped, nothing is left on
\* the event stream, and the call's entry is still in the table.
C23_Witness ==
    /\ pc["w1"] = "done"
    /\ ret["w1"] = "Err"
    /\ pc["dc1"] = "done"
    /\ transport.handler = "stopped"
    /\ event_q = <<>>
    /\ pkt["w1"].msg_number \in DOMAIN pending

\* The frame the relay takes in this step, when it takes a Packet event.
RelayedFrame == Head(event_q).packet

\* A frame that answers no registered request: a JSON message without an id,
\* a frame that is not a JSON message, or one whose id is not in the table.
Unmatched(p) ==
    \/ p.content_type # "Message"
    \/ p.encoding_type # "Json"
    \/ p.data.kind # "json"
    \/ "id" \notin DOMAIN p.data.obj
    \/ p.data.obj.id \notin DOMAIN pending

\* C24: when the relay takes a Packet event whose frame is a JSON message
\* without an id, is not a JSON message (a Data frame), or has an id that is
\* not registered, the pending table and every caller's receiver are left as
\* they were, and the event is passed to the callback.
C24_UnmatchedFrame ==
    [][(/\ event_q # <<>>
        /\ event_q' = Tail(event_q)
        /\ Head(event_q).t = "Packet"
        /\ Unmatched(RelayedFrame))
          => (/\ pending' = pending
              /\ rx' = rx
              /\ delivered' = Append(delivered, Head(event_q)))]_vars

\* C24 witness: a Data frame whose payload carries the id of a registered
\* request has been passed to the callback, and the request is still
\* registered and unresolved.
C24_Witness ==
    /\ pc["w1"] = "wfr_recv"
    /\ \E i \in DOMAIN delivered :
         /\ delivered[i].t = "Packet"
         /\ delivered[i].packet.content_type = "Data"
         /\ "id" \in DOMAIN delivered[i].packet.data.obj
         /\ delivered[i].packet.data.obj.id = pkt["w1"].msg_number
    /\ pkt["w1"].msg_number \in DOMAIN pending
    /\ rx["w1"].st = "empty"
    /\ ~Received(U32(9))
    /\ Len(delivered) >= 2

----------------------------------------------------------------------------
(* SpecReady: the status poller, the relay and a transport that connects   *)
(* again after its connection has ended.                                   *)

MaxConnected == 2

\* The Connected events the transport has sent so far.
ConnectedSent ==
    Len(SelectSeq(delivered \o event_q,
                  LAMBDA e : e.t = "TransportStatus" /\ e.status = "Connected"))

\* The transport opens its port again after the connection has ended and
\* reports Connected on the event sender `start` handed it.
Reconnected ==
    /\ pc[Starter] = "done"
    /\ transport.handler = "stopped"
    /\ ConnectedSent < MaxConnected
    /\ event_q' = Enqueue(StatusEvent("Connected", "reconnect"))
    /\ transport' = [transport EXCEPT !.tx = TRUE, !.handler = "running"]
    /\ UNCHANGED <<codecVars, MESSAGE_ID, returned, sending, pending, delivered, ready, tlock,
                   action_q, port_out, wire, wdone, pc, pkt, rx, resp, ret, sd,
                   progress, poll, script, overlap>>

InitReady == InitManager({StatusPoller, Starter}, {"serial"}, {<<>>})

NextReady ==
    \/ StartBegin
    \/ StartPort
    \/ Reconnected
    \/ HandlerWrite
    \/ HandlerWriteFails
    \/ HandlerReadEnds
    \/ HandlerClose
    \/ Relay
    \/ DeviceReply
    \/ PollerReady
    \/ PollerTick
    \/ PollerResponse
    \/ WfrInsert(StatusPoller)
    \/ WfrSend(StatusPoller)
    \/ WfrWritten(StatusPoller)
    \/ WfrRecv(StatusPoller)

SpecReady == InitReady /\ [][NextReady]_vars

\* The relay has passed a Connected status event on.
ConnectedObserved ==
    \E i \in DOMAIN delivered :
        delivered[i].t = "TransportStatus" /\ delivered[i].status = "Connected"

\* C25: the status poller hands no get-prop request to the transport (and
\* does not leave its wait for readiness) before the relay has observed a
\* Connected event; readiness is signalled at most once, so a later Connected
\* event changes neither the readiness signal nor the poller: the one poller
\* never goes back to its wait, and once stopped it stays stopped.
C25_ReadyOnce ==
    /\ []((HandedBy(StatusPoller) # {} \/ pc[StatusPoller] # "await_ready")
             => ConnectedObserved)
    /\ [][/\ ready.tx # "unsent" => ready'.tx = ready.tx
          /\ pc[StatusPoller] # "await_ready" => pc'[StatusPoller] # "await_ready"
          /\ pc[StatusPoller] = "ended" => pc'[StatusPoller] = "ended"
          /\ (ConnectedObserved /\ event_q # <<>> /\ event_q' = Tail(event_q)
                /\ Head(event_q).t = "TransportStatus")
                  => (ready' = ready /\ pc' = pc)]_vars

\* C25 witness: the poller sent a request and has stopped, and the relay has
\* passed on the Connected event of a reconnect.
C25_Witness ==
    /\ pc[StatusPoller] = "ended"
    /\ HandedBy(StatusPoller) # {}
    /\ \E i \in DOMAIN delivered :
         /\ delivered[i].t = "TransportStatus"
         /\ delivered[i].status = "Connected"
         /\ delivered[i].cause = "reconnect"

----------------------------------------------------------------------------
(* The status poller against a bulk transfer (SpecSend).                   *)

\* C26: no get-prop request of the status poller is handed to the transport
\* while the Sending flag is set, whatever the order of the poller's look at
\* the flag and send_data's setting of it.
C26_NoPollFrameWhileSending ==
    \A i \in DOMAIN wire : wire[i].by = StatusPoller => ~wire[i].sending

----------------------------------------------------------------------------
(* The chunk loop of send_data (SpecChunk).                                *)

\* This step hands a frame of task p to send_packet.
SendStep(p) ==
    /\ Len(wire') = Len(wire) + 1
    /\ wire'[Len(wire')].by = p

\* The frames of task p the handler has not written yet.
Unwritten(p) == {i \in DOMAIN action_q : action_q[i].by = p}

\* C27: within one send_data call the chunks are handed to the transport in
\* index order and never pipelined: the frame handed over after k others is
\* chunk k + 1 of the payload, and when it is handed over the completion
\* signals of the k earlier chunks have resolved, so none of the call's
\* frames is still waiting to be written.
C27_ChunksInOrder ==
    [][\A p \in SendCallers : SendStep(p) =>
          LET frame == wire'[Len(wire')].packet
              k == Cardinality(HandedBy(p))
          IN  /\ frame.msg_package_num = k + 1
              /\ frame.data.bytes = ToLeBytes(sd[p].job_id) \o Chunks(sd[p].data)[k + 1]
              /\ Len(progress[p]) = k
              /\ wdone[p] = "none"
              /\ Unwritten(p) = {}]_vars

\* C27 witness: on the serial transport the third chunk of a call has been
\* handed over and its write is outstanding.
C27_Witness ==
    /\ transport.kind = "serial"
    /\ Cardinality(HandedBy("sd1")) = 3
    /\ wdone["sd1"] = "pending"
    /\ Unwritten("sd1") # {}

----------------------------------------------------------------------------
(* SpecProgress: two send_data calls of up to three chunks on one manager, *)
(* with writes that fail.                                                  *)

ProgressLens == {0, 1, ChunkSize + 1, 2000}

InitProgress == InitManager({"sd1", "sd2", Starter}, TransportKinds, {<<>>})

NextProgress ==
    \/ StartBegin
    \/ StartPort
    \/ HandlerWrite
    \/ HandlerWriteFails
    \/ HandlerClose
    \/ \E p \in {"sd1", "sd2"}, len \in ProgressLens :
           SendDataStart(p, U32(42), Payload(len))
    \/ \E p \in {"sd1", "sd2"} :
           SendDataSend(p) \/ SendDataWritten(p) \/ SendDataReturn(p)

SpecProgress == InitProgress /\ [][NextProgress]_vars

\* The chunks of p's call whose write has completed: the frames send_packet
\* accepted, but for one whose signal is unresolved, unconsumed or cancelled.
WritesCompleted(p) ==
    Cardinality(FramesBy(p))
      - (IF pc[p] = "sd_written" \/ ret[p] = "ErrCanceled" THEN 1 ELSE 0)

\* C28: in a send_data call of n chunks the progress function is called once
\* after each chunk whose write completed, with (n, 1), (n, 2), ... in that
\* order, and (n, n) is the last call of a call that returns Ok; it is not
\* called for a chunk whose write failed or was never attempted, and never in
\* a call the sending guard rejected.
C28_ProgressCalls ==
    /\ [](\A p \in {"sd1", "sd2"} :
            /\ Len(progress[p]) = WritesCompleted(p)
            /\ \A i \in DOMAIN progress[p] : progress[p][i] = <<sd[p].count, i>>
            /\ ret[p] = "Ok" => Len(progress[p]) = CeilOf(Len(sd[p].data), 892)
            /\ ret[p] = "ErrAlreadySending" => progress[p] = <<>>)
    /\ [][\A p \in {"sd1", "sd2"} :
            progress'[p] # progress[p] =>
               /\ pc[p] = "sd_written"
               /\ wdone[p] = "done"
               /\ Len(progress'[p]) = Len(progress[p]) + 1]_vars

\* C28 witness: one call made two of its three progress calls and then lost a
\* write, and the other call was rejected by the guard.
C28_Witness ==
    /\ progress["sd1"] = <<<<3, 1>>, <<3, 2>>>>
    /\ ret["sd1"] = "ErrCanceled"
    /\ ret["sd2"] = "ErrAlreadySending"
    /\ progress["sd2"] = <<>>

----------------------------------------------------------------------------
(* SpecFrames: SpecChunk on a process whose id counter is fresh or aged.   *)

InitFrames ==
    /\ MESSAGE_ID \in {U32(1), AgedCounter}
    /\ InitAfterNew({"sd1", Starter}, TransportKinds, {<<>>})

NextFrames ==
    \/ StartBegin
    \/ StartPort
    \/ HandlerWrite
    \/ HandlerWriteFails
    \/ HandlerClose
    \/ Relay
    \/ \E job_id \in JobIds, len \in ChunkLens :
           SendDataStart("sd1", job_id, Payload(len))
    \/ SendDataSend("sd1")
    \/ SendDataWritten("sd1")
    \/ SendDataReturn("sd1")

SpecFrames == InitFrames /\ [][NextFrames]_vars

\* The frames of the call, in the order send_packet got them.
DataFrames == SelectSeq(wire, LAMBDA w : w.by = "sd1")

\* The ids next_message_id returned to the call, in call order.
IdsTaken == SelectSeq(returned, LAMBDA r : r.by = "sd1")

\* The header, flag and payload size of every frame of the call, and the id
\* each frame carries: the one taken for its chunk.
FrameShape ==
    \A i \in DOMAIN DataFrames :
        LET frame == DataFrames[i].packet IN
        /\ frame.content_type = "Data"
        /\ frame.interaction_type = "Request"
        /\ frame.encoding_type = "Hexadecimal"
        /\ frame.encryption_mode = "None"
        /\ frame.msg_number = IdsTaken[i].id
        /\ frame.terminal_id = IdsTaken[i].id
        /\ frame.is_subpackage = (frame.msg_package_total > 1)
        /\ frame.msg_package_total = CeilOf(Len(sd["sd1"].data), 892)
        /\ Len(frame.data.bytes) >= 5
        /\ Len(frame.data.bytes) <= MAX_DATA_SIZE
        /\ MAX_DATA_SIZE = 896
        /\ Len(frame.data.bytes) < 1024

\* C29: every frame send_data hands to the transport is a Data / Request /
\* Hexadecimal frame with encryption None, carries the id next_message_id
\* returned for its chunk, has is_subpackage set exactly when the call has
\* more than one chunk, and a payload of 5 to 896 bytes, within the 10-bit
\* length field; and the ids increase strictly over the chunks of the call.
C29_DataFrames ==
    /\ FrameShape
    /\ \A i, j \in DOMAIN DataFrames :
         i < j => U32Lt(DataFrames[i].packet.msg_number, DataFrames[j].packet.msg_number)

----------------------------------------------------------------------------
(* SpecDecode: the status poller or poll_job against a device whose        *)
(* answers may have another shape than the loop expects.                   *)

InitDecode ==
    \E client \in {StatusPoller, JobPoller} :
        InitManager({client, Starter}, {"serial"},
                    {<<PlainResult>>,
                     <<JobsResult(<<JobInfo(U32(42), 3)>>), PlainResult>>})

NextDecode ==
    \/ StartBegin
    \/ StartPort
    \/ HandlerWrite
    \/ HandlerWriteFails
    \/ HandlerClose
    \/ Relay
    \/ DeviceReply
    \/ DeviceStray
    \/ PollerReady
    \/ PollerTick
    \/ PollerResponse
    \/ \E job_id \in JobIds : PollJobCall(job_id)
    \/ PollJobTick
    \/ PollJobResponse
    \/ \E p \in {StatusPoller, JobPoller} :
           WfrInsert(p) \/ WfrSend(p) \/ WfrWritten(p) \/ WfrRecv(p)

SpecDecode == InitDecode /\ [][NextDecode]_vars

\* wait_for_response gave task p a frame that does not decode as the result
\* shape its loop expects.
Undecodable(p, shape) ==
    /\ pc[p] = "wfr_done"
    /\ resp[p].r = "Ok"
    /\ ~HasResult(resp[p].packet, shape)

\* C30: a correlated response that does not decode as the expected shape ends
\* the loop that awaited it: the status poller goes to its end after a
\* get-prop response that is no device status, and poll_job returns after a
\* get-job-info response that is no list of job records; neither takes
\* another tick.
C30_DecodeFailureEndsLoop ==
    [][/\ (Undecodable(StatusPoller, "status") /\ pc'[StatusPoller] # "wfr_done")
             => pc'[StatusPoller] = "ended"
       /\ (Undecodable(JobPoller, "jobs") /\ pc'[JobPoller] # "wfr_done")
             => pc'[JobPoller] = "done"]_vars

----------------------------------------------------------------------------
(* The loops after a failed wait (SpecDecode).                             *)

\* wait_for_response returned an error to task p, and this step is the
\* loop's next one.
WaitFailedStep(p) ==
    /\ pc[p] = "wfr_done"
    /\ resp[p].r = "Err"
    /\ pc'[p] # "wfr_done"

\* C31: there is no retry after a failed poll cycle: when wait_for_response
\* returns an error to the status poller the poller ends, and when it returns
\* an error to poll_job the call returns; a loop that has ended takes no id
\* and hands no further frame to the transport.
C31_NoRetry ==
    [][/\ WaitFailedStep(StatusPoller) => pc'[StatusPoller] = "ended"
       /\ WaitFailedStep(JobPoller) => pc'[JobPoller] = "done"
       /\ \A p \in {StatusPoller, JobPoller} :
            pc[p] \in {"ended", "done"} =>
               /\ pc'[p] = pc[p]
               /\ HandedBy(p)' = HandedBy(p)
               /\ pkt'[p] = pkt[p]]_vars

\* C31 witness: a request of the loop was handed over, its wait failed, and
\* the loop has ended while the relay still runs.
C31_Witness ==
    \/ /\ pc[StatusPoller] = "ended"
       /\ HandedBy(StatusPoller) # {}
    \/ /\ pc[JobPoller] = "done"
       /\ poll.exit = "wait_error"
       /\ HandedBy(JobPoller) # {}

----------------------------------------------------------------------------
(* The checksum byte on the way in (SpecTamper).                           *)

\* C32: read_one does not validate the checksum byte: when the checksum byte
\* of a frame's encoding is replaced by any other value, read_one returns the
\* frame it returns for the unmodified bytes, and has read to the frame's end.
C32_ChecksumNotValidated ==
    (/\ Len(encoded) = 1
     /\ items # <<>>
     /\ TamperedAt = {FieldOffsets(PayloadLen(1)).checksum})
    => /\ items[1] = Some(read_one(EncodeAll(encoded), 0).result)
       /\ items[1][1].r = "Ok"
       /\ items[1][1].packet = Decoded(encoded[1])

\* C32 witness: the checksum byte 0x59 of the frame of test_encode was
\* replaced by 0x46 and the reader returned the frame.
C32_Witness ==
    /\ encoded = <<TestPacket>>
    /\ TamperedAt = {FieldOffsets(PayloadLen(1)).checksum}
    /\ cursor.bytes[FieldOffsets(PayloadLen(1)).checksum] = 70
    /\ items # <<>>
    /\ items[1] = Some(Ok(TestPacket))

----------------------------------------------------------------------------
(* The end of the iteration on a source that stops short (SpecCodec).      *)

\* C33: the reader ends cleanly only when the source is exhausted exactly at
\* a frame boundary: when the iteration has ended with None the source holds
\* whole frames only, and on a source that stops inside a frame the reader's
\* last item is an error item, after which it is not asked again.
C33_CleanEndOnlyAtBoundary ==
    /\ Ended => AtFrameBoundary
    /\ (~AtFrameBoundary /\ (Ended \/ Failed)) => Failed

----------------------------------------------------------------------------
(* SpecRequests: the print job of SpecPrint next to the status poller, so  *)
(* that all three builders of JSON requests run on one manager.            *)

Requesters == {StatusPoller, JobPoller, "w1"}

InitRequests ==
    InitManager({"w1", "sd1", JobPoller, StatusPoller, Starter}, {"serial"},
                {<<JobsResult(<<JobInfo(U32(42), 9)>>)>>})

NextRequests ==
    \/ StartBegin
    \/ StartPort
    \/ HandlerWrite
    \/ Relay
    \/ DeviceReply
    \/ DeviceAcceptJob
    \/ PrintSubmit
    \/ PrintTransfer
    \/ SendDataSend("sd1")
    \/ SendDataWritten("sd1")
    \/ SendDataReturn("sd1")
    \/ PrintPoll
    \/ PollJobTick
    \/ PollJobResponse
    \/ PollerReady
    \/ PollerTick
    \/ PollerResponse
    \/ \E p \in Requesters :
           \/ WfrInsert(p)
           \/ WfrSend(p)
           \/ WfrWritten(p)
           \/ WfrRecv(p)

SpecRequests == InitRequests /\ [][NextRequests]_vars

\* The call of p is registered and no frame has resolved it yet.
AwaitsResponse(p) ==
    /\ pc[p] \in {"wfr_send", "wfr_written", "wfr_recv"}
    /\ rx[p].st = "empty"

\* C34: every request frame the status poller, poll_job and the print-job
\* submission hand to the transport has terminal_id equal to msg_number and
\* the id field of its JSON payload equal to msg_number, so the key a call is
\* registered under is the key the relay looks up for a response that echoes
\* the payload's id.
C34_OneIdPerRequest ==
    /\ \A i \in DOMAIN wire :
         wire[i].by \in Requesters =>
            /\ wire[i].packet.terminal_id = wire[i].packet.msg_number
            /\ HasJsonId(wire[i].packet)
            /\ JsonId(wire[i].packet) = wire[i].packet.msg_number
    /\ \A p \in Requesters :
         AwaitsResponse(p) =>
            /\ PendingKey(pkt[p]) \in DOMAIN pending
            /\ pending[PendingKey(pkt[p])] = p

\* C34 witness: the three kinds of request have been sent and each got the
\* response that echoes its id.
C34_Witness ==
    /\ \A p \in Requesters : HandedBy(p) # {}
    /\ \A p \in Requesters :
         \E i \in DOMAIN wire, j \in DOMAIN delivered :
            /\ wire[i].by = p
            /\ delivered[j].t = "Packet"
            /\ HasJsonId(delivered[j].packet)
            /\ JsonId(delivered[j].packet) = wire[i].packet.msg_number
    /\ pending = <<>>

----------------------------------------------------------------------------
(* A rejected send_data call (SpecProgress).                               *)

\* This step is the rejection of p's call by the sending guard.
RejectedStep(p) == ret[p] # "ErrAlreadySending" /\ ret'[p] = "ErrAlreadySending"

\* C35: a send_data call the sending guard rejects changes no state: the flag
\* is set before and after it, the transfer in progress keeps its place and
\* its data, and the rejected call takes no message id and hands no frame to
\* the transport; and while a call is past the guard the flag stays set.
C35_RejectionHasNoEffect ==
    /\ [][\A p \in SendCallers : RejectedStep(p) =>
            /\ sending /\ sending'
            /\ PastGuard # {}
            /\ \A q \in SendCallers \ {p} : pc'[q] = pc[q]
            /\ UNCHANGED <<MESSAGE_ID, returned, wire, action_q, wdone, tlock,
                           pkt, sd, progress, pending, transport>>]_vars
    /\ [](PastGuard # {} => sending)

\* C35 witness: a call was rejected while a three-chunk transfer was between
\* its chunks, and that transfer went on to return Ok with all its progress
\* calls made.
C35_Witness ==
    /\ ret["sd2"] = "ErrAlreadySending"
    /\ HandedBy("sd2") = {}
    /\ ret["sd1"] = "Ok"
    /\ progress["sd1"] = <<<<3, 1>>, <<3, 2>>, <<3, 3>>>>
    /\ ~sending

----------------------------------------------------------------------------
(* A failed chunk (SpecProgress).                                          *)

\* The call of p returned the error of its send or of its write-completion.
ChunkFailed(p) == ret[p] \in {"ErrSend", "ErrCanceled"}

\* The chunk numbers of the frames handed over for p, in order.
ChunkNumbers(p) ==
    LET frames == SelectSeq(wire, LAMBDA w : w.by = p)
    IN  [i \in DOMAIN frames |-> frames[i].packet.msg_package_num]

\* C36: when the send or the write-completion of a chunk fails, send_data
\* returns that error at once: the failed chunk is the last frame of the call
\* and was handed over once, no chunk after it is ever handed over, no
\* progress call is made for it, and the flag is clear when the call returns.
C36_ChunkFailureEndsCall ==
    /\ [][\A p \in SendCallers :
            /\ (~ChunkFailed(p) /\ ChunkFailed(p)') =>
                  /\ ~sending'
                  /\ pc'[p] = "done"
            /\ ChunkFailed(p) =>
                  /\ HandedBy(p)' = HandedBy(p)
                  /\ ret'[p] = ret[p]
                  /\ progress'[p] = progress[p]]_vars
    /\ [](\A p \in SendCallers :
            ChunkFailed(p) =>
               /\ ChunkNumbers(p) = [i \in 1 .. sd[p].index + 1 |-> i]
               /\ Len(progress[p]) = sd[p].index)

\* C36 witness: the write of the second of three chunks was cancelled; the
\* call returned the error with two frames handed over and the flag clear.
C36_Witness ==
    /\ ret["sd1"] = "ErrCanceled"
    /\ sd["sd1"].count = 3
    /\ ChunkNumbers("sd1") = <<1, 2>>
    /\ progress["sd1"] = <<<<3, 1>>>>
    /\ ~sending
    /\ pc["sd2"] = "idle"

----------------------------------------------------------------------------
(* An empty job list (SpecPoll).                                           *)

\* wait_for_response gave poll_job a response that decodes as a job list
\* without a record, and this step is the loop's next one.
EmptyListStep ==
    /\ pc[JobPoller] = "wfr_done"
    /\ pc'[JobPoller] # "wfr_done"
    /\ resp[JobPoller].r = "Ok"
    /\ HasResult(resp[JobPoller].packet, "jobs")
    /\ resp[JobPoller].packet.data.obj.result.v = <<>>

\* C37: when a get-job-info response decodes and its result list is empty,
\* poll_job puts no JobStatus event on the stream in that iteration and goes
\* on to the next tick without returning; the JobStatus events are never more
\* than the iterations and can be fewer.
C37_EmptyListKeepsPolling ==
    /\ [][EmptyListStep =>
            /\ pc'[JobPoller] = "tick"
            /\ event_q' = event_q
            /\ ret'[JobPoller] = ret[JobPoller]
            /\ poll'.exit = poll.exit]_vars
    /\ [](Len(JobStatusEvents) <= poll.iterations)

\* C37 witness: the device answered with an empty list and then with a final
\* state: poll_job ran two iterations and one JobStatus event was sent.
C37_Witness ==
    /\ pc[JobPoller] = "done"
    /\ poll.script0 = <<JobsResult(<<>>), JobsResult(<<JobInfo(U32(42), 9)>>)>>
    /\ poll.exit = "terminal"
    /\ poll.iterations = 2
    /\ Len(JobStatusEvents) = 1

----------------------------------------------------------------------------
(* The status poller's requests, one at a time (SpecWait).                 *)

\* The get-prop requests handed over for which no frame with their id has
\* been relayed.
Unanswered ==
    {i \in HandedBy(StatusPoller) : ~Received(wire[i].packet.msg_number)}

\* The DeviceStatus events the poller has sent.
DeviceStatusEvents == SelectSeq(delivered \o event_q, LAMBDA e : e.t = "DeviceStatus")

\* C38: the status poller has at most one get-prop request outstanding: it
\* takes the id of its next request only when a frame with the id of each
\* earlier one has been received, so while a response is missing it builds
\* no request, and it has sent no more DeviceStatus events than it has had
\* responses.
C38_OneOutstanding ==
    /\ [](/\ Cardinality(Unanswered) <= 1
          /\ Cardinality({k \in DOMAIN pending : pending[k] = StatusPoller}) <= 1
          /\ Len(DeviceStatusEvents)
                <= Cardinality(HandedBy(StatusPoller) \ Unanswered))
    /\ [][(pc[StatusPoller] = "tick" /\ pc'[StatusPoller] = "wfr_insert")
             => Unanswered = {}]_vars

\* C38 witness: the first request was answered and its status published, the
\* second was written and has no answer; the handler has stopped, the stream
\* is empty and the poller is still in its wait.
C38_Witness ==
    /\ Cardinality(HandedBy(StatusPoller)) = 2
    /\ Cardinality(Unanswered) = 1
    /\ pc[StatusPoller] = "wfr_recv"
    /\ Len(DeviceStatusEvents) = 1
    /\ transport.handler = "stopped"
    /\ event_q = <<>>

----------------------------------------------------------------------------
(* SpecLength: sources whose first frame has a payload around and beyond   *)
(* the 1023 bytes the flags can count.                                     *)

\* The payload lengths of the first frame.
LongLens == {1023, 1024, 1025, 1150, 2047, 2048}

LongFrames ==
    {[TestPacket EXCEPT !.data = Payload(n), !.is_subpackage = s,
                        !.encryption_mode = m, !.content_type = c] :
        n \in LongLens, s \in BOOLEAN, m \in DOMAIN Primitives.EncryptionMode,
        c \in {"Message", "Data"}}

InitLength == InitCodec

NextLength ==
    \/ \E frame \in IF encoded = <<>> THEN LongFrames ELSE LaterFrames : Encode(frame)
    \/ \E n \in CutLens : SourceEnds(n)
    \/ ReaderNext

SpecLength == InitLength /\ [][NextLength]_vars

\* The source holds all the bytes of its first frame.
FirstFrameWhole ==
    /\ encoded # <<>>
    /\ Len(cursor.bytes) >= 22 + PayloadLen(1)

\* The flags word of the first frame, as it stands in the source.
FirstFlags == ReadU16(SubSeq(cursor.bytes, 19, 20))

\* C39: encode writes the payload length modulo 1024 into the low ten bits
\* of the flags, with the mode and subpackage bits as the frame has them,
\* and emits every payload byte after the header, followed by the checksum
\* and the delimiter; for a payload of more than 1023 bytes the length in the
\* flags is not the number of payload bytes in the source.
C39_LengthModulo ==
    FirstFrameWhole =>
        LET frame == encoded[1]
            n == Len(frame.data)
        IN  /\ BitAnd(FirstFlags, 1023) = n % 1024
            /\ unpack(FirstFlags) =
                   Some([length |-> n % 1024, is_subpackage |-> frame.is_subpackage,
                         encryption_mode |-> frame.encryption_mode])
            /\ SubSeq(cursor.bytes, 21, 20 + n) = frame.data
            /\ cursor.bytes[22 + n] = WRAPPER
            /\ n > 1023 => BitAnd(FirstFlags, 1023) # n

\* C39 witness: a frame of 1025 payload bytes stands whole in the source with
\* the length 1 in its flags, and the reader has returned its first item.
C39_Witness ==
    /\ FirstFrameWhole
    /\ PayloadLen(1) = 1025
    /\ BitAnd(FirstFlags, 1023) = 1
    /\ Len(cursor.bytes) = 22 + 1025
    /\ items # <<>>

====
